---- MODULE Spec2Model ----
(***************************************************************************)
(* git-recipes: the recipe extractor (src/lib/recipes/scraper.ts) and the  *)
(* API route handlers that call it and the store client.                   *)
(*                                                                         *)
(* Strings are sequences of tokens.  A token is one character or one word  *)
(* (a run of non-whitespace characters treated as a unit).  The whitespace *)
(* tokens are SP (U+0020), NBSP (U+00A0), LF and CR; JavaScript's \s and   *)
(* String.prototype.trim treat all four as whitespace.                     *)
(*                                                                         *)
(* JSON values are records of one shape, [t, n, s, a, o]: t is the type    *)
(* tag, n the number (or 0/1 for a boolean), s the string, a the array's   *)
(* elements and o the object's members as a sequence of [k, v] pairs.      *)
(***************************************************************************)
EXTENDS Integers, Sequences, FiniteSets, TLC

VARIABLES
    pc,            \* "idle" | "fetching" | "storing" | "done"
    endpoint,      \* "none" | "direct" | "scrape" | "save" | "search"
    body,          \* the request body handed to a route handler
    sourceUrl,     \* the argument of scrapeRecipeFromUrl
    normalizedUrl, \* the local normalizedUrl of scrapeRecipeFromUrl
    fetchCalls,    \* outbound fetch calls of the current invocation
    upstream,      \* what the fetch produced
    scrape,        \* outcome of scrapeRecipeFromUrl (with its locals)
    response,      \* what the route handler answered
    clientCalls,   \* getWeaviateClient calls of the current request
    storeCalls,    \* saveRecipe / searchRecipes calls of the current request
    storeOutcome,  \* what getWeaviateClient and the store call produced
    lib,           \* the store client library: its module state and last call
    ui             \* the page component: its React state and its requests in flight

vars == <<pc, endpoint, body, sourceUrl, normalizedUrl, fetchCalls, upstream,
          scrape, response, clientCalls, storeCalls, storeOutcome, lib, ui>>

-----------------------------------------------------------------------------
(* Bounds of the model.                                                    *)

MaxUrlLen == 4

\* longest search query handed to searchRecipes, in characters
MaxQueryLen == 3

\* client instances created in one run
MaxClients == 3

\* requests the page issues in one run (submits and saves together)
MaxRequests == 4

-----------------------------------------------------------------------------
(* Text.                                                                   *)

SP == " "
NBSP == "nbsp"
LF == "lf"
CR == "cr"

\* JavaScript's \s (and the characters trim removes)
IsWs(c) == c \in {SP, NBSP, LF, CR}

RECURSIVE TrimStart(_)
TrimStart(s) ==
    IF s = <<>> THEN <<>>
    ELSE IF IsWs(Head(s)) THEN TrimStart(Tail(s)) ELSE s

RECURSIVE TrimEnd(_)
TrimEnd(s) ==
    IF s = <<>> THEN <<>>
    ELSE IF IsWs(s[Len(s)]) THEN TrimEnd(SubSeq(s, 1, Len(s) - 1)) ELSE s

\* String.prototype.trim
Trim(s) == TrimEnd(TrimStart(s))

\* value.replace(/\s+/g, " ")
RECURSIVE CollapseWs(_)
CollapseWs(s) ==
    IF s = <<>> THEN <<>>
    ELSE IF IsWs(Head(s)) THEN <<SP>> \o CollapseWs(TrimStart(s))
    ELSE <<Head(s)>> \o CollapseWs(Tail(s))

\* value.replace(/\u00A0/g, " ")
ReplaceNbsp(s) == [i \in 1..Len(s) |-> IF s[i] = NBSP THEN SP ELSE s[i]]

\* a cleanText that forgets the final trim
cleanTextNoTrim(value) == ReplaceNbsp(CollapseWs(value))

cleanText(value) == Trim(ReplaceNbsp(CollapseWs(value)))

\* String.prototype.toLowerCase on the word tokens the model uses
LowerTok(c) ==
    CASE c = "HTTP" -> "http"
      [] c = "HTTPS" -> "https"
      [] c = "Recipe" -> "recipe"
      [] c = "RECIPE" -> "recipe"
      [] c = "A" -> "a"
      [] OTHER -> c

toLowerCase(s) == [i \in 1..Len(s) |-> LowerTok(s[i])]

\* all strings of exactly n tokens, and of at most n tokens, over the alphabet
StringsOfLen(alphabet, n) == [1..n -> alphabet]

StringsUpTo(alphabet, n) == UNION {StringsOfLen(alphabet, k) : k \in 0..n}

-----------------------------------------------------------------------------
(* JSON values.                                                            *)

JV(t, n, s, a, o) == [t |-> t, n |-> n, s |-> s, a |-> a, o |-> o]

JUndefined == JV("undefined", 0, <<>>, <<>>, <<>>)
JNull == JV("null", 0, <<>>, <<>>, <<>>)
JBool(b) == JV("bool", IF b THEN 1 ELSE 0, <<>>, <<>>, <<>>)
JNum(n) == JV("num", n, <<>>, <<>>, <<>>)
JStr(s) == JV("str", 0, s, <<>>, <<>>)
JArr(a) == JV("arr", 0, <<>>, a, <<>>)
JObj(o) == JV("obj", 0, <<>>, <<>>, o)

Member(k, v) == [k |-> k, v |-> v]

\* x == null || x === undefined
IsNullish(j) == j.t \in {"null", "undefined"}

\* JavaScript truthiness of a JSON value
Truthy(j) ==
    CASE j.t \in {"null", "undefined"} -> FALSE
      [] j.t = "bool" -> j.n = 1
      [] j.t = "num" -> j.n # 0
      [] j.t = "str" -> j.s # <<>>
      [] OTHER -> TRUE

\* typeof x === "object" (true of null and of arrays)
TypeofObject(j) == j.t \in {"null", "arr", "obj"}

HasKey(j, key) == j.t = "obj" /\ \E i \in 1..Len(j.o) : j.o[i].k = key

\* x[key] on a non-nullish value: JSON.parse keeps the last of duplicate keys;
\* primitives and arrays have no such own property
Get(j, key) ==
    IF HasKey(j, key)
    THEN LET last == CHOOSE i \in 1..Len(j.o) :
                        /\ j.o[i].k = key
                        /\ \A m \in (i + 1)..Len(j.o) : j.o[m].k # key
         IN  j.o[last].v
    ELSE JUndefined

\* a ?? b
Coalesce(a, b) == IF IsNullish(a) THEN b ELSE a

-----------------------------------------------------------------------------
(* Errors of the extractor.                                                *)

NoError == [class |-> "none", status |-> 0, message |-> ""]

\* new RecipeScrapeRequestError(message, status)
RecipeScrapeRequestError(message, status) ==
    [class |-> "RecipeScrapeRequestError", status |-> status, message |-> message]

\* new RecipeScrapeParseError(message): status defaults to 422
RecipeScrapeParseError(message) ==
    [class |-> "RecipeScrapeParseError", status |-> 422, message |-> message]

\* cleanText applied to a value that has no replace method
TypeError == [class |-> "TypeError", status |-> 0,
              message |-> "value.replace is not a function"]

-----------------------------------------------------------------------------
(* new URL(url): the WHATWG parser without a base URL, on token strings.   *)
(* Words stand for runs of letters; ":" "/" and SP are themselves.         *)

UrlWords == {"http", "https", "HTTP", "HTTPS", "ftp", "a", "A"}

IsUrlWord(c) == c \in UrlWords

\* leading and trailing C0 control or space are stripped, tab and newline
\* are removed everywhere
RECURSIVE UrlStripStart(_)
UrlStripStart(s) ==
    IF s = <<>> THEN <<>>
    ELSE IF Head(s) \in {SP, LF, CR} THEN UrlStripStart(Tail(s)) ELSE s

RECURSIVE UrlStripEnd(_)
UrlStripEnd(s) ==
    IF s = <<>> THEN <<>>
    ELSE IF s[Len(s)] \in {SP, LF, CR}
         THEN UrlStripEnd(SubSeq(s, 1, Len(s) - 1)) ELSE s

UrlPreprocess(s) ==
    SelectSeq(UrlStripEnd(UrlStripStart(s)), LAMBDA c : c \notin {LF, CR})

\* index of the first token of s satisfying Test, or Len(s) + 1
FirstIndex(s, Test(_)) ==
    IF \E i \in 1..Len(s) : Test(s[i])
    THEN CHOOSE i \in 1..Len(s) : Test(s[i]) /\ \A m \in 1..(i - 1) : ~Test(s[m])
    ELSE Len(s) + 1

SpecialSchemes == {<<"http">>, <<"https">>, <<"ftp">>}

UrlFailure == [ok |-> FALSE, protocol |-> <<>>, href |-> <<>>]

\* host[:port] of an authority; words are not digits, so a non-empty port
\* is invalid, and a space is a forbidden host code point; the host of a
\* special scheme is lowercased, an opaque host is kept
ParseAuthority(auth, special) ==
    LET colon == FirstIndex(auth, LAMBDA c : c = ":")
        host == SubSeq(auth, 1, colon - 1)
        port == SubSeq(auth, colon + 1, Len(auth))
    IN  IF \/ \E i \in 1..Len(auth) : auth[i] = SP
           \/ port # <<>>
           \/ (special /\ host = <<>>)
        THEN [ok |-> FALSE, host |-> <<>>]
        ELSE [ok |-> TRUE, host |-> IF special THEN toLowerCase(host) ELSE host]

\* the path as serialized: a space is percent-encoded
EncodePath(path) == [i \in 1..Len(path) |-> IF path[i] = SP THEN "%20" ELSE path[i]]

ParseUrl(url) ==
    LET s == UrlPreprocess(url)
        k == FirstIndex(s, LAMBDA c : ~IsUrlWord(c))
    IN  IF k = 1 \/ k > Len(s) \/ s[k] # ":"
        THEN UrlFailure             \* no scheme, and no base URL to resolve against
        ELSE
          LET scheme == toLowerCase(SubSeq(s, 1, k - 1))
              rest == SubSeq(s, k + 1, Len(s))
          IN  IF scheme \in SpecialSchemes
              THEN \* special authority (ignore) slashes state: every leading slash is skipped
                LET a0 == FirstIndex(rest, LAMBDA c : c # "/")
                    afterSlashes == SubSeq(rest, a0, Len(rest))
                    e == FirstIndex(afterSlashes, LAMBDA c : c = "/")
                    auth == ParseAuthority(SubSeq(afterSlashes, 1, e - 1), TRUE)
                    path == SubSeq(afterSlashes, e, Len(afterSlashes))
                IN  IF ~auth.ok THEN UrlFailure
                    ELSE [ok |-> TRUE,
                          protocol |-> scheme \o <<":">>,
                          href |-> scheme \o <<":", "/", "/">> \o auth.host
                                     \o (IF path = <<>> THEN <<"/">> ELSE EncodePath(path))]
              ELSE IF Len(rest) >= 2 /\ rest[1] = "/" /\ rest[2] = "/"
              THEN
                LET afterSlashes == SubSeq(rest, 3, Len(rest))
                    e == FirstIndex(afterSlashes, LAMBDA c : c = "/")
                    auth == ParseAuthority(SubSeq(afterSlashes, 1, e - 1), FALSE)
                IN  IF ~auth.ok THEN UrlFailure
                    ELSE [ok |-> TRUE,
                          protocol |-> scheme \o <<":">>,
                          href |-> scheme \o <<":", "/", "/">> \o auth.host
                                     \o SubSeq(afterSlashes, e, Len(afterSlashes))]
              ELSE [ok |-> TRUE,          \* opaque or slash-rooted path
                    protocol |-> scheme \o <<":">>,
                    href |-> scheme \o <<":">> \o rest]

\* /^https?:$/.test(parsed.protocol)
IsHttpProtocol(protocol) == protocol \in {<<"http", ":">>, <<"https", ":">>}

\* a normalizeRecipeUrl that returns the submitted string instead of the
\* parsed URL's serialization
normalizeKeepInput(url) ==
    LET parsed == ParseUrl(url)
    IN  IF parsed.ok /\ IsHttpProtocol(parsed.protocol)
        THEN [ok |-> TRUE, url |-> url, error |-> NoError]
        ELSE [ok |-> FALSE, url |-> <<>>,
              error |-> RecipeScrapeRequestError("Invalid recipe URL provided.", 400)]

\* a normalizeRecipeUrl that forgets the protocol test: every URL that parses
\* is kept
normalizeAnyUrl(url) ==
    LET parsed == ParseUrl(url)
    IN  IF parsed.ok
        THEN [ok |-> TRUE, url |-> parsed.href, error |-> NoError]
        ELSE [ok |-> FALSE, url |-> <<>>,
              error |-> RecipeScrapeRequestError("Invalid recipe URL provided.", 400)]

\* The inner throw ("Only HTTP(S) recipe URLs are supported.") is raised inside
\* the try block, so the catch replaces it by the "Invalid recipe URL" error.
normalizeRecipeUrl(url) ==
    LET parsed == ParseUrl(url)
    IN  IF parsed.ok /\ IsHttpProtocol(parsed.protocol)
        THEN [ok |-> TRUE, url |-> parsed.href, error |-> NoError]
        ELSE [ok |-> FALSE, url |-> <<>>,
              error |-> RecipeScrapeRequestError("Invalid recipe URL provided.", 400)]

-----------------------------------------------------------------------------
(* The fetched page as cheerio presents it to the extractor:               *)
(*   scripts       the script[type='application/ld+json'] blocks in        *)
(*                 document order, each unparsable or holding a JSON value *)
(*   ogTitle, twitterTitle   the content attribute, JUndefined when absent *)
(*   itempropName, h1, title the text of the first matching element        *)
(*   selectors     for each of the six ingredient selectors, the texts of  *)
(*                 the elements it matches, in document order              *)

Script(json) == [valid |-> TRUE, json |-> json]
BadScript == [valid |-> FALSE, json |-> JNull]

\* JSON.parse(raw) guarded by try/catch
parseJsonLd(script) == IF script.valid THEN script.json ELSE JNull

isRecipeType(type) ==
    CASE type.t = "str" -> toLowerCase(type.s) = <<"recipe">>
      [] type.t = "arr" ->
            \E i \in 1..Len(type.a) :
                type.a[i].t = "str" /\ toLowerCase(type.a[i].s) = <<"recipe">>
      [] OTHER -> FALSE

\* a search that looks at the value and at the entries of a top-level array,
\* and never descends
findRecipeEntryShallow(data) ==
    IF data.t = "obj" /\ isRecipeType(Get(data, "@type")) THEN data
    ELSE IF data.t = "arr"
            /\ \E i \in 1..Len(data.a) :
                  data.a[i].t = "obj" /\ isRecipeType(Get(data.a[i], "@type"))
    THEN data.a[CHOOSE i \in 1..Len(data.a) :
                    /\ data.a[i].t = "obj" /\ isRecipeType(Get(data.a[i], "@type"))
                    /\ \A j \in 1..(i - 1) :
                          ~(data.a[j].t = "obj" /\ isRecipeType(Get(data.a[j], "@type")))]
    ELSE JNull

RECURSIVE findRecipeEntry(_)
RECURSIVE FindInEntries(_, _)

\* the for loop over an array: the first entry with a recipe wins
FindInEntries(entries, i) ==
    IF i > Len(entries) THEN JNull
    ELSE LET recipe == findRecipeEntry(entries[i])
         IN  IF Truthy(recipe) THEN recipe ELSE FindInEntries(entries, i + 1)

findRecipeEntry(data) ==
    IF ~Truthy(data) THEN JNull
    ELSE IF data.t = "arr" THEN FindInEntries(data.a, 1)
    ELSE IF data.t = "obj"
         THEN IF isRecipeType(Get(data, "@type")) THEN data
              ELSE IF Get(data, "@graph").t = "arr"
                   THEN findRecipeEntry(Get(data, "@graph"))
                   ELSE JNull
    ELSE JNull

RECURSIVE ScanScripts(_, _)
ScanScripts(scripts, i) ==
    IF i > Len(scripts) THEN JNull
    ELSE LET parsed == parseJsonLd(scripts[i])
         IN  IF ~Truthy(parsed) THEN ScanScripts(scripts, i + 1)
             ELSE LET recipe == findRecipeEntry(parsed)
                  IN  IF Truthy(recipe) THEN recipe
                      ELSE ScanScripts(scripts, i + 1)

extractRecipeFromJsonLd(page) == ScanScripts(page.scripts, 1)

\* a candidate list that puts the DOM candidates before the structured-data
\* fields
TitleCandidatesDomFirst(page, recipe) ==
    << Coalesce(page.ogTitle, JStr(<<>>)),
       Coalesce(page.twitterTitle, JStr(<<>>)),
       JStr(page.itempropName),
       JStr(page.h1),
       JStr(page.title) >>
    \o (IF Truthy(recipe)
        THEN << Coalesce(Get(recipe, "name"), JStr(<<>>)),
                Coalesce(Get(recipe, "headline"), JStr(<<>>)),
                Coalesce(Get(recipe, "title"), JStr(<<>>)) >>
        ELSE <<>>)

\* the candidate list of resolveTitle, in the order it is built
TitleCandidates(page, recipe) ==
    (IF Truthy(recipe)
     THEN << Coalesce(Get(recipe, "name"), JStr(<<>>)),
             Coalesce(Get(recipe, "headline"), JStr(<<>>)),
             Coalesce(Get(recipe, "title"), JStr(<<>>)) >>
     ELSE <<>>)
    \o << Coalesce(page.ogTitle, JStr(<<>>)),
          Coalesce(page.twitterTitle, JStr(<<>>)),
          JStr(page.itempropName),
          JStr(page.h1),
          JStr(page.title) >>

\* candidates.map(cleanText).filter(nonempty)[0] ?? "";  cleanText throws a
\* TypeError on a candidate that is not a string
resolveTitle(page, recipe) ==
    LET candidates == TitleCandidates(page, recipe)
    IN  IF \E i \in 1..Len(candidates) : candidates[i].t # "str"
        THEN [threw |-> TRUE, value |-> <<>>]
        ELSE LET cleaned == SelectSeq([i \in 1..Len(candidates) |->
                                           cleanText(candidates[i].s)],
                                      LAMBDA v : Len(v) > 0)
             IN  [threw |-> FALSE,
                  value |-> IF cleaned = <<>> THEN <<>> ELSE cleaned[1]]

\* value.split(/\r?\n/)
RECURSIVE SplitLines(_)
SplitLines(s) ==
    LET i == FirstIndex(s, LAMBDA c : c = LF)
    IN  IF i > Len(s) THEN <<s>>
        ELSE LET before == SubSeq(s, 1, i - 1)
                 segment == IF before # <<>> /\ before[Len(before)] = CR
                            THEN SubSeq(before, 1, Len(before) - 1)
                            ELSE before
             IN  <<segment>> \o SplitLines(SubSeq(s, i + 1, Len(s)))

\* segment.split(/\s{2,}/)
RECURSIVE SplitMultiWs(_)
SplitMultiWs(s) ==
    IF \E i \in 1..(Len(s) - 1) : IsWs(s[i]) /\ IsWs(s[i + 1])
    THEN LET i == CHOOSE k \in 1..(Len(s) - 1) :
                     /\ IsWs(s[k]) /\ IsWs(s[k + 1])
                     /\ \A m \in 1..(k - 1) : ~(IsWs(s[m]) /\ IsWs(s[m + 1]))
         IN  <<SubSeq(s, 1, i - 1)>>
                 \o SplitMultiWs(TrimStart(SubSeq(s, i, Len(s))))
    ELSE <<s>>

RECURSIVE Flat(_)
Flat(ss) == IF ss = <<>> THEN <<>> ELSE Head(ss) \o Flat(Tail(ss))

\* the closure push of normalizeIngredientList: what one candidate adds
PushCandidate(candidate) ==
    IF candidate.t # "str" THEN <<>>
    ELSE LET cleaned == cleanText(candidate.s)
         IN  IF Len(cleaned) > 0 THEN <<cleaned>> ELSE <<>>

normalizeIngredientList(value) ==
    CASE value.t = "arr" ->
            Flat([i \in 1..Len(value.a) |->
                    LET item == value.a[i]
                    IN  IF Truthy(item) /\ TypeofObject(item) /\ HasKey(item, "item")
                        THEN PushCandidate(Get(item, "item"))
                        ELSE PushCandidate(item)])
      [] value.t = "str" ->
            LET lines == SplitLines(value.s)
                segments == Flat([i \in 1..Len(lines) |-> SplitMultiWs(lines[i])])
            IN  Flat([i \in 1..Len(segments) |-> PushCandidate(JStr(segments[i]))])
      [] OTHER -> <<>>

\* the six selectors of extractIngredientsFromDom, by position:
\*   1 [itemprop='recipeIngredient']   2 [itemprop='ingredients']
\*   3 ul[class*='ingredient'] li      4 ol[class*='ingredient'] li
\*   5 li[class*='ingredient']         6 li[id*='ingredient']
SelectorCount == 6

\* the non-empty cleaned texts of the elements one selector matches
SelectorValues(texts) ==
    SelectSeq([i \in 1..Len(texts) |-> cleanText(texts[i])], LAMBDA v : Len(v) > 0)

\* a DOM fallback that stops at the first selector matching any element,
\* whether or not an element has text
RECURSIVE AnyMatchFrom(_, _)
AnyMatchFrom(page, i) ==
    IF i > SelectorCount THEN <<>>
    ELSE IF Len(page.selectors[i]) > 0 THEN SelectorValues(page.selectors[i])
    ELSE AnyMatchFrom(page, i + 1)

extractFromFirstMatch(page) == AnyMatchFrom(page, 1)

RECURSIVE DomFrom(_, _)
DomFrom(page, i) ==
    IF i > SelectorCount THEN <<>>
    ELSE LET values == SelectorValues(page.selectors[i])
         IN  IF Len(values) > 0 THEN values ELSE DomFrom(page, i + 1)

extractIngredientsFromDom(page) == DomFrom(page, 1)

\* a list that keeps every occurrence
KeepEveryItem(items) == items

\* Array.from(new Set(items)): insertion order, first occurrence kept
SetOrder(items) ==
    LET keep == {i \in 1..Len(items) : \A m \in 1..(i - 1) : items[m] # items[i]}
        RECURSIVE Pick(_)
        Pick(i) == IF i > Len(items) THEN <<>>
                   ELSE (IF i \in keep THEN <<items[i]>> ELSE <<>>) \o Pick(i + 1)
    IN  Pick(1)

resolveIngredients(page, recipe) ==
    LET fromJsonLd ==
            IF Truthy(recipe)
            THEN normalizeIngredientList(
                     Coalesce(Get(recipe, "recipeIngredient"),
                         Coalesce(Get(recipe, "ingredients"),
                                  Get(recipe, "ingredient"))))
            ELSE <<>>
        seen == SetOrder(fromJsonLd)
    IN  IF Len(seen) = 0 THEN SetOrder(extractIngredientsFromDom(page)) ELSE seen

NoRecord == [title |-> <<>>, ingredients |-> <<>>, sourceUrl |-> <<>>]

NoScrape == [kind |-> "none", error |-> NoError, record |-> NoRecord,
             titleThrew |-> FALSE, title |-> <<>>, ingredients |-> <<>>]

ScrapeRejects(error) == [NoScrape EXCEPT !.kind = "error", !.error = error]

\* scrapeRecipeFromUrl from cheerio.load on: everything after the fetch
ScrapePage(url, page) ==
    LET recipeFromJsonLd == extractRecipeFromJsonLd(page)
        title == resolveTitle(page, recipeFromJsonLd)
        ingredients == resolveIngredients(page, recipeFromJsonLd)
    IN  IF title.threw
        THEN [ScrapeRejects(TypeError) EXCEPT !.titleThrew = TRUE]
        ELSE IF title.value = <<>> \/ Len(ingredients) = 0
        THEN [ScrapeRejects(RecipeScrapeParseError(
                  "Unable to extract recipe title and ingredients from the provided URL."))
                EXCEPT !.title = title.value, !.ingredients = ingredients]
        ELSE [kind |-> "record", error |-> NoError,
              record |-> [title |-> title.value, ingredients |-> ingredients,
                          sourceUrl |-> url],
              titleThrew |-> FALSE,
              title |-> title.value, ingredients |-> ingredients]

-----------------------------------------------------------------------------
(* fetchRecipeHtml: what the fetch produced and what the extractor makes   *)
(* of it.                                                                  *)

\* response.ok
ResponseOk(status) == status >= 200 /\ status <= 299

EmptyPage ==
    [scripts |-> <<>>, ogTitle |-> JUndefined, twitterTitle |-> JUndefined,
     itempropName |-> <<>>, h1 |-> <<>>, title |-> <<>>,
     selectors |-> [i \in 1..SelectorCount |-> <<>>]]

\* redirectedTo is the response's final URL when the fetch followed a
\* redirect, empty otherwise
NoUpstream == [kind |-> "none", status |-> 0, readable |-> FALSE, page |-> EmptyPage,
               redirectedTo |-> <<>>]
FetchThrew == [NoUpstream EXCEPT !.kind = "throws"]
FetchResponse(status, readable, page) ==
    [kind |-> "response", status |-> status, readable |-> readable, page |-> page,
     redirectedTo |-> <<>>]

\* a fetchRecipeHtml that hands every non-success status through unchanged
fetchRecipeHtmlPassThrough(up) ==
    IF up.kind = "throws"
    THEN RecipeScrapeRequestError("Failed to fetch the remote recipe content.", 502)
    ELSE IF ~ResponseOk(up.status)
    THEN RecipeScrapeRequestError(
             "Recipe request failed with status " \o ToString(up.status) \o ".",
             up.status)
    ELSE IF ~up.readable
    THEN RecipeScrapeRequestError("Unable to read the recipe response body.", 502)
    ELSE NoError

\* the error fetchRecipeHtml throws, NoError when it returns the html
fetchRecipeHtml(up) ==
    IF up.kind = "throws"
    THEN RecipeScrapeRequestError("Failed to fetch the remote recipe content.", 502)
    ELSE IF ~ResponseOk(up.status)
    THEN RecipeScrapeRequestError(
             "Recipe request failed with status " \o ToString(up.status) \o ".",
             IF up.status >= 400 /\ up.status < 500 THEN up.status ELSE 502)
    ELSE IF ~up.readable
    THEN RecipeScrapeRequestError("Unable to read the recipe response body.", 502)
    ELSE NoError

\* scrapeRecipeFromUrl once the fetch has settled
ScrapeAfterFetch(url, up) ==
    LET error == fetchRecipeHtml(up)
    IN  IF error # NoError THEN ScrapeRejects(error) ELSE ScrapePage(url, up.page)

-----------------------------------------------------------------------------
(* Route handlers: request bodies and responses.                           *)

\* request.json(): the body is unparsable text or a JSON value
Unparsable == [valid |-> FALSE, json |-> JNull]
Parsed(json) == [valid |-> TRUE, json |-> json]
NoBody == [valid |-> FALSE, json |-> JUndefined]

NoResponse == [kind |-> "none", status |-> 0, error |-> "", data |-> JUndefined]

\* NextResponse.json({ error }, { status })
ErrorResponse(message, status) ==
    [kind |-> "json", status |-> status, error |-> message, data |-> JUndefined]

\* NextResponse.json(data): status 200
OkResponse(data) == [kind |-> "json", status |-> 200, error |-> "", data |-> data]

\* an exception thrown outside the handler's try blocks
Escapes(name) == [kind |-> "throw", status |-> 0, error |-> name, data |-> JUndefined]

\* a recipe record as JSON (JSON.stringify then request.json)
RecipeJson(record) ==
    JObj(<< Member("title", JStr(record.title)),
            Member("ingredients",
                   JArr([i \in 1..Len(record.ingredients) |->
                             JStr(record.ingredients[i])])),
            Member("sourceUrl", JStr(record.sourceUrl)) >>)

\* a catch block that answers every request error of the extractor with 502
ScrapeResponseAs502(outcome) ==
    IF outcome.kind = "record" THEN OkResponse(RecipeJson(outcome.record))
    ELSE IF outcome.error.class = "RecipeScrapeRequestError"
    THEN ErrorResponse(outcome.error.message, 502)
    ELSE IF outcome.error.class = "RecipeScrapeParseError"
    THEN ErrorResponse(outcome.error.message, outcome.error.status)
    ELSE ErrorResponse("Failed to scrape recipe.", 500)

\* the catch block of the scrape handler
ScrapeResponse(outcome) ==
    IF outcome.kind = "record" THEN OkResponse(RecipeJson(outcome.record))
    ELSE IF outcome.error.class = "RecipeScrapeRequestError"
    THEN ErrorResponse(outcome.error.message, outcome.error.status)
    ELSE IF outcome.error.class = "RecipeScrapeParseError"
    THEN ErrorResponse(outcome.error.message, outcome.error.status)
    ELSE ErrorResponse("Failed to scrape recipe.", 500)

\* typeof payload.<field> === "string" ? payload.<field>.trim() : ""
TrimmedField(payload, field) ==
    IF Get(payload, field).t = "str" THEN Trim(Get(payload, field).s) ELSE <<>>

isNonEmptyString(value) == value.t = "str" /\ Len(Trim(value.s)) > 0

isStringArray(value) ==
    \A i \in 1..Len(value.a) : value.a[i].t = "str" /\ Len(Trim(value.a[i].s)) > 0

Invalid(message) == [valid |-> FALSE, errorMessage |-> message, recipe |-> NoRecord]

validateRecipePayload(value) ==
    IF ~Truthy(value) \/ ~TypeofObject(value)
    THEN Invalid("The 'recipe' field must be an object containing title, ingredients, and sourceUrl.")
    ELSE LET title == Get(value, "title")
             ingredients == Get(value, "ingredients")
             url == Get(value, "sourceUrl")
         IN  IF ~isNonEmptyString(title) \/ ingredients.t # "arr" \/ ~isNonEmptyString(url)
             THEN Invalid("The 'recipe' field must include non-empty title, ingredients[], and sourceUrl values.")
             ELSE IF ~isStringArray(ingredients)
             THEN Invalid("All ingredients must be strings.")
             ELSE [valid |-> TRUE, errorMessage |-> "",
                   recipe |-> [title |-> Trim(title.s),
                               ingredients |-> [i \in 1..Len(ingredients.a) |->
                                                    Trim(ingredients.a[i].s)],
                               sourceUrl |-> Trim(url.s)]]

-----------------------------------------------------------------------------
(* The store client library: src/lib/weaviate/client.ts with its           *)
(* configuration and the tracing wrapper of src/lib/opik.                  *)

\* the characters escapeGraphQLString treats specially
QUOTE == "\""
BSL == "\\"

\* what a promise settled with: a value or a thrown error
NoCaught == [name |-> "none", message |-> <<>>]
ErrorOf(message) == [name |-> "Error", message |-> message]
RuntimeTypeError(message) == [name |-> "TypeError", message |-> message]

NoOutcome == [kind |-> "none", value |-> JUndefined, error |-> NoCaught]
Resolved(value) == [kind |-> "resolved", value |-> value, error |-> NoCaught]
Rejected(error) == [kind |-> "rejected", value |-> JUndefined, error |-> error]

\* parts.join(separator)
RECURSIVE Join(_, _)
Join(parts, separator) ==
    IF parts = <<>> THEN <<>>
    ELSE IF Len(parts) = 1 THEN parts[1]
    ELSE parts[1] \o separator \o Join(Tail(parts), separator)

\* process.env.NAME?.trim(): a variable is JUndefined or a string
EnvText(value) == IF value.t = "str" THEN Trim(value.s) ELSE <<>>

getWeaviateConfig(env) ==
    LET url == EnvText(env.WEAVIATE_URL)
        apiKey == EnvText(env.WEAVIATE_API_KEY)
        missing == (IF url = <<>> THEN << <<"WEAVIATE_URL">> >> ELSE <<>>)
                   \o (IF apiKey = <<>> THEN << <<"WEAVIATE_API_KEY">> >> ELSE <<>>)
    IN  IF Len(missing) > 0
        THEN [ok |-> FALSE, url |-> <<>>, apiKey |-> <<>>,
              error |-> ErrorOf(<<"Missing required environment variables: ">>
                                \o Join(missing, <<", ">>))]
        ELSE [ok |-> TRUE, url |-> url, apiKey |-> apiKey, error |-> NoCaught]

getOpikConfig(env) ==
    LET apiKey == EnvText(env.OPIK_API_KEY)
        workspace == EnvText(env.OPIK_WORKSPACE)
        missing == (IF apiKey = <<>> THEN << <<"OPIK_API_KEY">> >> ELSE <<>>)
                   \o (IF workspace = <<>> THEN << <<"OPIK_WORKSPACE">> >> ELSE <<>>)
    IN  IF Len(missing) > 0
        THEN [ok |-> FALSE,
              error |-> ErrorOf(<<"Missing required Opik environment variables: ">>
                                \o Join(missing, <<", ">>))]
        ELSE [ok |-> TRUE, error |-> NoCaught]

NoClient == [id |-> 0, baseUrl |-> <<>>, apiKey |-> <<>>,
             objectsEndpoint |-> <<>>, graphqlEndpoint |-> <<>>]

\* new URL(path, baseUrl).toString() for an absolute path: the base's scheme
\* and authority followed by the path
UrlOrigin(href) ==
    LET afterAuthority == SubSeq(href, 5, Len(href))
        e == FirstIndex(afterAuthority, LAMBDA c : c = "/")
    IN  SubSeq(href, 1, 4 + e - 1)

\* a base URL must parse and must not have an opaque path
CanBeBase(baseUrl) ==
    LET parsed == ParseUrl(baseUrl)
    IN  parsed.ok /\ Len(parsed.href) >= 4 /\ parsed.href[3] = "/" /\ parsed.href[4] = "/"

\* createHttpWeaviateClient(baseUrl, apiKey), as the instance numbered id;
\* new URL throws a TypeError on a base that is no URL
createHttpWeaviateClient(baseUrl, apiKey, id) ==
    IF ~CanBeBase(baseUrl)
    THEN [ok |-> FALSE, client |-> NoClient,
          error |-> RuntimeTypeError(<<"Invalid URL">>)]
    ELSE [ok |-> TRUE,
          client |-> [id |-> id, baseUrl |-> baseUrl, apiKey |-> apiKey,
                      objectsEndpoint |->
                          UrlOrigin(ParseUrl(baseUrl).href) \o <<"/", "v1", "/", "objects">>,
                      graphqlEndpoint |->
                          UrlOrigin(ParseUrl(baseUrl).href) \o <<"/", "v1", "/", "graphql">>],
          error |-> NoCaught]

\* getWeaviateClient when no client is cached: the configuration is read and
\* the client built
NewClient(env, id) ==
    LET config == getWeaviateConfig(env)
    IN  IF ~config.ok
        THEN [ok |-> FALSE, client |-> NoClient, error |-> config.error]
        ELSE createHttpWeaviateClient(config.url, config.apiKey, id)

\* value.replace(/["\\]/g, "\\$&")
EscapeQuotesAndBackslashes(value) ==
    Flat([i \in 1..Len(value) |->
             IF value[i] \in {QUOTE, BSL} THEN <<BSL, value[i]>> ELSE <<value[i]>>])

\* value.replace(/\n/g, "\\n")
EscapeNewlines(value) ==
    Flat([i \in 1..Len(value) |-> IF value[i] = LF THEN <<BSL, "n">> ELSE <<value[i]>>])

\* an escape that forgets the backslash
escapeQuotesOnly(value) ==
    EscapeNewlines(Flat([i \in 1..Len(value) |->
                            IF value[i] = QUOTE THEN <<BSL, QUOTE>> ELSE <<value[i]>>]))

escapeGraphQLString(value) == EscapeNewlines(EscapeQuotesAndBackslashes(value))

\* the body of a store response: its text and what JSON.parse makes of it
StoreBody(raw, valid, json) == [raw |-> raw, valid |-> valid, json |-> json]

safeParseJson(storeBody) ==
    IF storeBody.raw = <<>> THEN JUndefined
    ELSE IF storeBody.valid THEN storeBody.json ELSE JUndefined

\* the string messages of the entries of record.error, an array
ErrorEntryMessages(entries) ==
    SelectSeq([i \in 1..Len(entries) |->
                  IF Truthy(entries[i]) /\ TypeofObject(entries[i])
                     /\ HasKey(entries[i], "message")
                     /\ Get(entries[i], "message").t = "str"
                  THEN Get(entries[i], "message").s ELSE <<>>],
              LAMBDA m : m # <<>>)

\* an extraction that looks at message before the error entries
extractPreferMessage(parsedBody) ==
    IF ~Truthy(parsedBody) \/ ~TypeofObject(parsedBody) THEN JUndefined
    ELSE IF Get(parsedBody, "message").t = "str" /\ Get(parsedBody, "message").s # <<>>
    THEN Get(parsedBody, "message")
    ELSE IF Get(parsedBody, "error").t = "arr"
            /\ Len(ErrorEntryMessages(Get(parsedBody, "error").a)) > 0
    THEN JStr(Join(ErrorEntryMessages(Get(parsedBody, "error").a), <<"; ">>))
    ELSE IF Get(parsedBody, "error").t = "str" /\ Get(parsedBody, "error").s # <<>>
    THEN Get(parsedBody, "error")
    ELSE JUndefined

\* JUndefined when no message can be extracted
extractWeaviateErrorMessage(parsedBody) ==
    IF ~Truthy(parsedBody) \/ ~TypeofObject(parsedBody) THEN JUndefined
    ELSE IF Get(parsedBody, "error").t = "arr"
            /\ Len(ErrorEntryMessages(Get(parsedBody, "error").a)) > 0
    THEN JStr(Join(ErrorEntryMessages(Get(parsedBody, "error").a), <<"; ">>))
    ELSE IF Get(parsedBody, "message").t = "str" /\ Get(parsedBody, "message").s # <<>>
    THEN Get(parsedBody, "message")
    ELSE IF Get(parsedBody, "error").t = "str" /\ Get(parsedBody, "error").s # <<>>
    THEN Get(parsedBody, "error")
    ELSE JUndefined

\* the Error thrown on a response whose status is not a success status
FailureStatusError(prefix, resp) ==
    LET errorMessage == Coalesce(extractWeaviateErrorMessage(safeParseJson(resp.body)),
                                 JStr(resp.body.raw))
    IN  ErrorOf(<<prefix, ToString(resp.status), " ">> \o resp.statusText
                \o (IF errorMessage.s # <<>> THEN <<" - ">> \o errorMessage.s ELSE <<>>))

\* fetch threw, or response.text() did
TransportError(resp) ==
    IF resp.kind = "throws" THEN RuntimeTypeError(<<"fetch failed">>)
    ELSE RuntimeTypeError(<<"terminated">>)

\* the callback saveRecipe hands to trackExternalOperation, given what the
\* store answers
saveRecipeExecute(resp) ==
    IF resp.kind = "throws" \/ ~resp.readable THEN Rejected(TransportError(resp))
    ELSE IF ~ResponseOk(resp.status)
    THEN Rejected(FailureStatusError("Failed to save recipe to Weaviate: ", resp))
    ELSE LET data == safeParseJson(resp.body)
         IN  IF ~Truthy(data) \/ Get(data, "id").t # "str" \/ Get(data, "id").s = <<>>
             THEN Rejected(ErrorOf(
                      <<"Weaviate response missing object id after save operation.">>))
             ELSE Resolved(JObj(<<Member("id", Get(data, "id"))>>))

\* a?.key
OptGet(j, key) == IF IsNullish(j) THEN JUndefined ELSE Get(j, key)

\* the mapping of one item of a search response: JNull when a field is missing
toSearchResult(item) ==
    LET additional == Get(item, "_additional")
        id == OptGet(additional, "id")
        score == OptGet(additional, "score")
        title == Get(item, "title")
        ingredients == Get(item, "ingredients")
        url == Get(item, "sourceUrl")
    IN  IF \/ id.t # "str" \/ id.s = <<>>
           \/ title.t # "str" \/ title.s = <<>>
           \/ ingredients.t # "arr"
           \/ url.t # "str" \/ url.s = <<>>
        THEN JNull
        ELSE JObj(<< Member("id", id),
                     Member("title", title),
                     Member("ingredients",
                            JArr(SelectSeq(ingredients.a, LAMBDA ing : ing.t = "str"))),
                     Member("sourceUrl", url),
                     Member("score", IF score.t = "num" /\ score.n # 0
                                     THEN score ELSE JUndefined) >>)

\* data.errors.map((err) => err.message).filter(Boolean): the entries of the
\* store's errors array are objects
SearchErrorMessages(errors) ==
    SelectSeq([i \in 1..Len(errors) |->
                  IF Get(errors[i], "message").t = "str"
                  THEN Get(errors[i], "message").s ELSE <<>>],
              LAMBDA m : m # <<>>)

\* the callback searchRecipes hands to trackExternalOperation
searchRecipesExecute(resp) ==
    IF resp.kind = "throws" \/ ~resp.readable THEN Rejected(TransportError(resp))
    ELSE IF ~ResponseOk(resp.status)
    THEN Rejected(FailureStatusError("Failed to search recipes in Weaviate: ", resp))
    ELSE LET data == safeParseJson(resp.body)
             errors == OptGet(data, "errors")
             recipes == Coalesce(
                 OptGet(OptGet(OptGet(data, "data"), "Get"), "Recipe"), JArr(<<>>))
         IN  IF IsNullish(data)
             THEN Rejected(RuntimeTypeError(<<"Cannot read properties of undefined">>))
             ELSE IF errors.t = "arr" /\ Len(errors.a) > 0
             THEN IF \E i \in 1..Len(errors.a) : IsNullish(errors.a[i])
                  THEN Rejected(RuntimeTypeError(<<"Cannot read properties of null">>))
                  ELSE Rejected(ErrorOf(<<"Weaviate search error: ">>
                                        \o Join(SearchErrorMessages(errors.a), <<"; ">>)))
             ELSE IF errors.t = "str" /\ errors.s # <<>>
             THEN Rejected(RuntimeTypeError(<<"data.errors.map is not a function">>))
             ELSE IF recipes.t # "arr"
             THEN Rejected(RuntimeTypeError(<<"recipes.map is not a function">>))
             ELSE IF \E i \in 1..Len(recipes.a) : IsNullish(recipes.a[i])
             THEN Rejected(RuntimeTypeError(<<"Cannot read properties of null">>))
             ELSE Resolved(JArr(SelectSeq([i \in 1..Len(recipes.a) |->
                                              toSearchResult(recipes.a[i])],
                                          LAMBDA r : r.t # "null")))

-----------------------------------------------------------------------------
(* Inputs.                                                                 *)

UrlAlphabet == {"http", "HTTPS", "ftp", "a", ":", "/", SP}

\* every string scrapeRecipeFromUrl may be called with
UrlStrings == StringsUpTo(UrlAlphabet, MaxUrlLen)

\* the url strings of the bodies posted to the scrape endpoint
BodyUrlStrings == StringsUpTo(UrlAlphabet, MaxUrlLen - 1)

\* upstream statuses: success, redirect, client error, server error
OkStatuses == {200, 204}
FailureStatuses == {300, 304, 399, 400, 404, 422, 499, 500, 502, 503, 599}

RecipeType == Member("@type", JStr(<<"Recipe">>))
Article == JObj(<<Member("@type", JStr(<<"Article">>)),
                  Member("name", JStr(<<"Blog">>))>>)

W(word) == JStr(<<word>>)

\* JSON-LD script blocks of the pages of Spec
MainScripts ==
    { <<>>,
      <<BadScript>>,
      <<Script(Article)>>,
      <<Script(JObj(<<RecipeType,
                      Member("name", JStr(<<SP, "Test", NBSP, LF, "Pancakes", SP>>)),
                      Member("recipeIngredient",
                             JArr(<<W("flour"), W("eggs"), JStr(<<SP, "flour", SP>>),
                                    W("Flour"), JStr(<<>>)>>))>>))>>,
      <<BadScript,
        Script(JArr(<<Article,
                      JObj(<<Member("@type", JStr(<<"recipe">>)),
                             Member("name", W("Pancakes")),
                             Member("recipeIngredient", JArr(<<W("eggs")>>))>>)>>))>>,
      <<Script(JObj(<<Member("@graph",
            JArr(<<Article,
                   JObj(<<RecipeType,
                          Member("headline", W("Stew")),
                          Member("ingredients",
                                 JStr(<<"beef", CR, LF, "salt", SP, SP, "pepper">>))>>)>>))>>))>>,
      <<Script(JObj(<<RecipeType,
                      Member("name", JNum(5)),
                      Member("recipeIngredient", JArr(<<W("flour")>>))>>))>>,
      <<Script(JObj(<<RecipeType,
                      Member("name", W("Pancakes")),
                      Member("headline", JObj(<<>>)),
                      Member("recipeIngredient", JArr(<<W("flour")>>))>>))>>,
      <<Script(JObj(<<RecipeType,
                      Member("name", JStr(<<SP>>)),
                      Member("recipeIngredient", JArr(<<>>))>>))>>,
      <<Script(JObj(<<RecipeType,
                      Member("recipeIngredient",
                             JArr(<<JObj(<<Member("item", W("flour"))>>),
                                    JObj(<<Member("item", JNum(3))>>),
                                    JNull, JNum(7)>>))>>))>>,
      <<Script(JObj(<<Member("@type", JArr(<<W("Thing"), W("RECIPE")>>)),
                      Member("name", JNull),
                      Member("title", W("Pie")),
                      Member("ingredient", JArr(<<W("eggs")>>))>>))>>,
      <<Script(JObj(<<RecipeType,
                      Member("name", W("Pancakes")),
                      Member("recipeIngredient", JArr(<<>>)),
                      Member("ingredients", JArr(<<W("flour")>>))>>))>> }

\* [ogTitle, twitterTitle, itempropName, h1, title] of the pages of Spec
MainDomTitles ==
    { [og |-> JUndefined, tw |-> JUndefined, ip |-> <<>>, h1 |-> <<>>, tt |-> <<>>],
      [og |-> JUndefined, tw |-> JUndefined, ip |-> <<>>,
       h1 |-> <<LF, "Simple", SP, SP, "Soup", LF>>, tt |-> <<"Simple", SP, "Soup">>],
      [og |-> JStr(<<NBSP>>), tw |-> W("Tweet"), ip |-> <<>>, h1 |-> <<>>,
       tt |-> <<"Site">>] }

\* selector matches of the pages of Spec
MainSelectors ==
    { [i \in 1..SelectorCount |-> <<>>],
      [i \in 1..SelectorCount |->
          IF i = 3 THEN << <<"3", SP, "cups", SP, "water">>, <<"1", SP, "tbsp", SP, "salt">> >>
          ELSE <<>>],
      [i \in 1..SelectorCount |->
          CASE i = 1 -> << <<SP>>, <<>> >>
            [] i = 5 -> << <<"salt">>, <<NBSP, "salt">>, <<"oil">> >>
            [] i = 6 -> << <<"water">> >>
            [] OTHER -> <<>>] }

MakePage(scripts, dom, selectors) ==
    [scripts |-> scripts, ogTitle |-> dom.og, twitterTitle |-> dom.tw,
     itempropName |-> dom.ip, h1 |-> dom.h1, title |-> dom.tt,
     selectors |-> selectors]

Pages ==
    {MakePage(sc, dom, sel) : sc \in MainScripts, dom \in MainDomTitles,
                              sel \in MainSelectors}

\* bodies posted to the scrape endpoint
ScrapeBodies ==
    {Unparsable}
    \cup {Parsed(j) : j \in {JNull, JNum(0), JNum(5), JBool(TRUE), JStr(<<>>),
                             JStr(<<"http", ":", "a">>), JArr(<<>>),
                             JArr(<<JStr(<<"http", ":", "a">>)>>), JObj(<<>>)}}
    \cup {Parsed(JObj(<<Member("url", v)>>)) :
              v \in {JNull, JNum(7), JBool(TRUE), JArr(<<>>), JObj(<<>>),
                     JStr(<<NBSP, LF>>)}}
    \cup {Parsed(JObj(<<Member("url", JStr(u))>>)) : u \in BodyUrlStrings}

SaveTitles == {JUndefined, JNull, JNum(1), JStr(<<>>), JStr(<<SP, NBSP>>),
               W("Soup"), JStr(<<SP, "Soup", LF>>)}
SaveIngredients ==
    {JUndefined, JNull, JStr(<<"salt">>), JObj(<<>>), JArr(<<>>),
     JArr(<<W("salt")>>), JArr(<<JStr(<<SP, "salt">>), W("oil")>>),
     JArr(<<W("salt"), JNum(2)>>), JArr(<<W("salt"), JStr(<<SP>>)>>),
     JArr(<<JStr(<<>>)>>), JArr(<<JNull>>)}
SaveUrls == {JUndefined, JNum(1), JStr(<<>>), JStr(<<LF>>),
             JStr(<<"http", ":", "/", "/", "a", "/">>),
             JStr(<<SP, "notaurl", SP>>)}

SaveRecipes ==
    {JUndefined, JNull, JNum(0), JNum(3), JBool(TRUE), JStr(<<"Soup">>), JArr(<<>>),
     JObj(<<>>)}
    \cup {JObj(<<Member("title", t), Member("ingredients", i), Member("sourceUrl", u)>>) :
              t \in SaveTitles, i \in SaveIngredients, u \in SaveUrls}

\* bodies posted to the save endpoint
SaveBodies ==
    {Unparsable}
    \cup {Parsed(j) : j \in {JNull, JNum(5), JBool(FALSE), JStr(<<"recipe">>),
                             JArr(<<>>), JObj(<<>>)}}
    \cup {Parsed(JObj(<<Member("recipe", r)>>)) : r \in SaveRecipes}

\* bodies posted to the search endpoint
SearchBodies ==
    {Unparsable}
    \cup {Parsed(j) : j \in {JNull, JNum(5), JBool(TRUE), JStr(<<"soup">>),
                             JArr(<<>>), JObj(<<>>)}}
    \cup {Parsed(JObj(<<Member("query", q)>>)) :
              q \in {JNull, JNum(2), JArr(<<W("soup")>>), JStr(<<>>),
                     JStr(<<SP, LF, NBSP>>), W("soup"),
                     JStr(<<SP, "tomato", SP, "soup", SP>>)}}

\* what the store client's calls resolve with
SavedIds == {JObj(<<Member("id", W("id-1"))>>)}
SearchResults == {JArr(<<>>),
                  JArr(<<JObj(<<Member("id", W("id-1")), Member("title", W("Soup"))>>)>>)}

\* the environment of the process: each variable unset or a string
Env(url, apiKey, opikKey, opikWorkspace) ==
    [WEAVIATE_URL |-> url, WEAVIATE_API_KEY |-> apiKey,
     OPIK_API_KEY |-> opikKey, OPIK_WORKSPACE |-> opikWorkspace]

UnsetEnv == Env(JUndefined, JUndefined, JUndefined, JUndefined)

UrlA == <<"https", ":", "/", "/", "a">>
UrlB == <<"http", ":", "/", "/", "a", "/", "a">>

\* environments for the client holder: the store's variables unset, blank,
\* unusable or set to one of two clusters; tracing configured
ClientEnvs ==
    {Env(url, apiKey, W("opik-key"), W("workspace")) :
        url \in {JUndefined, JStr(<<SP>>), W("a"), JStr(<<SP>> \o UrlA), JStr(UrlB)},
        apiKey \in {JUndefined, JStr(<<>>), W("key")}}

\* environments for the store operations: the store configured, the tracing
\* variables unset, blank or set
StoreEnvs ==
    { Env(JStr(UrlA), W("key"), JUndefined, JUndefined),
      Env(JStr(UrlA), W("key"), W("opik-key"), JUndefined),
      Env(JStr(UrlA), W("key"), JUndefined, W("workspace")),
      Env(JStr(UrlA), W("key"), W("opik-key"), JStr(<<SP>>)),
      Env(JStr(UrlA), W("key"), W("opik-key"), W("workspace")) }

\* the environment of a deployment with everything configured
FullEnv == Env(JStr(UrlA), W("key"), W("opik-key"), W("workspace"))

\* the errors getWeaviateClient throws
ClientFailures == {NewClient(env, 1).error : env \in ClientEnvs} \ {NoCaught}

NoStoreResponse ==
    [kind |-> "none", status |-> 0, statusText |-> <<>>, readable |-> FALSE,
     body |-> StoreBody(<<>>, FALSE, JUndefined)]

StoreThrew == [NoStoreResponse EXCEPT !.kind = "throws"]

StoreAnswer(status, statusText, readable, storeBody) ==
    [kind |-> "response", status |-> status, statusText |-> statusText,
     readable |-> readable, body |-> storeBody]

\* a JSON body whose text is the token raw
JsonBody(raw, json) == StoreBody(<<raw>>, TRUE, json)

Message(text) == JObj(<<Member("message", text)>>)

\* bodies of error responses
ErrorBodies ==
    { StoreBody(<<>>, FALSE, JUndefined),
      StoreBody(<<"<html>", SP, "Bad", SP, "Gateway">>, FALSE, JUndefined),
      JsonBody("{error:[{message:boom},{message:bang}],message:msg}",
               JObj(<<Member("error", JArr(<<Message(W("boom")), Message(W("bang"))>>)),
                      Member("message", W("msg"))>>)),
      JsonBody("{error:[{message:''},{code:1},null],message:msg,error2:err}",
               JObj(<<Member("error", JArr(<<Message(JStr(<<>>)),
                                            JObj(<<Member("code", JNum(1))>>), JNull>>)),
                      Member("message", W("msg"))>>)),
      JsonBody("{message:msg,error:err}",
               JObj(<<Member("message", W("msg")), Member("error", W("err"))>>)),
      JsonBody("{message:'',error:err}",
               JObj(<<Member("message", JStr(<<>>)), Member("error", W("err"))>>)),
      JsonBody("{error:[{message:7}]}",
               JObj(<<Member("error", JArr(<<Message(JNum(7))>>))>>)),
      JsonBody("{code:1}", JObj(<<Member("code", JNum(1))>>)),
      JsonBody("'oops'", W("oops")),
      JsonBody("null", JNull) }

FoundItem(id, title, ingredients, url, score) ==
    JObj(<<Member("title", title), Member("ingredients", ingredients),
           Member("sourceUrl", url),
           Member("_additional", JObj(<<Member("id", id), Member("score", score)>>))>>)

GoodItem ==
    FoundItem(W("id-1"), W("Soup"), JArr(<<W("salt"), JNum(2), W("water")>>),
              W("http://a/"), JNum(1))

SearchData(recipes) ==
    JObj(<<Member("data", JObj(<<Member("Get", JObj(<<Member("Recipe", recipes)>>))>>))>>)

\* bodies of success responses
SuccessBodies ==
    { StoreBody(<<>>, FALSE, JUndefined),
      StoreBody(<<"<html>">>, FALSE, JUndefined),
      JsonBody("null", JNull),
      JsonBody("5", JNum(5)),
      JsonBody("{}", JObj(<<>>)),
      JsonBody("{id:id-1}", JObj(<<Member("id", W("id-1"))>>)),
      JsonBody("{id:''}", JObj(<<Member("id", JStr(<<>>))>>)),
      JsonBody("{id:5}", JObj(<<Member("id", JNum(5))>>)),
      JsonBody("{errors:[{message:e1},{},{message:e2}]}",
               JObj(<<Member("errors", JArr(<<Message(W("e1")), JObj(<<>>),
                                             Message(W("e2"))>>))>>)),
      JsonBody("{errors:[],data:{Get:{Recipe:[good]}}}",
               JObj(<<Member("errors", JArr(<<>>)),
                      Member("data",
                             JObj(<<Member("Get",
                                   JObj(<<Member("Recipe", JArr(<<GoodItem>>))>>))>>))>>)),
      JsonBody("{data:{Get:{Recipe:[good,noid,notitle,5]}}}",
               SearchData(JArr(<<GoodItem,
                                 FoundItem(JStr(<<>>), W("Soup"), JArr(<<>>), W("http://a/"),
                                           JNum(1)),
                                 FoundItem(W("id-2"), JNull, JArr(<<>>), W("http://a/"),
                                           JNum(1)),
                                 JNum(5)>>))),
      JsonBody("{data:{Get:{Recipe:[minimal]}}}",
               SearchData(JArr(<<FoundItem(W("id-3"), W("Pie"), JArr(<<>>), W("http://a/"),
                                           JNum(0))>>))),
      JsonBody("{data:{Get:{Recipe:[textlist,textscore,nourl,good,bare]}}}",
               SearchData(JArr(<<FoundItem(W("id-4"), W("Pie"), W("salt"), W("http://a/"),
                                           JNum(1)),
                                 FoundItem(W("id-5"), W("Stew"), JArr(<<W("beef")>>),
                                           W("http://b/"), W("0.9")),
                                 FoundItem(W("id-6"), W("Stew"), JArr(<<W("beef")>>),
                                           JStr(<<>>), JNum(1)),
                                 GoodItem,
                                 JObj(<<Member("title", W("Pie")),
                                        Member("ingredients", JArr(<<>>)),
                                        Member("sourceUrl", W("http://a/"))>>)>>))),
      JsonBody("{data:{Get:{Recipe:[null]}}}", SearchData(JArr(<<JNull>>))),
      JsonBody("{data:{Get:{Recipe:{}}}}", SearchData(JObj(<<>>))),
      JsonBody("{data:{Get:{}}}",
               JObj(<<Member("data", JObj(<<Member("Get", JObj(<<>>))>>))>>)),
      JsonBody("{data:null}", JObj(<<Member("data", JNull)>>)) }

\* what the store can answer a request with
StoreResponses ==
    {StoreThrew}
    \cup {StoreAnswer(200, <<"OK">>, FALSE, StoreBody(<<>>, FALSE, JUndefined))}
    \cup {StoreAnswer(status[1], status[2], TRUE, b) :
              status \in {<<401, <<"Unauthorized">> >>,
                          <<500, <<"Internal", SP, "Server", SP, "Error">> >>,
                          <<302, <<>> >>},
              b \in ErrorBodies}
    \cup {StoreAnswer(200, <<"OK">>, TRUE, b) : b \in SuccessBodies}

\* the errors tracing throws when its configuration is missing
TracingFailures == {getOpikConfig(env).error : env \in StoreEnvs} \ {NoCaught}

\* the errors saveRecipe (from the save endpoint) and searchRecipes (from the
\* search endpoint) reject with
StoreFailures(ep) ==
    TracingFailures
    \cup {outcome.error :
             outcome \in {o \in {IF ep = "save" THEN saveRecipeExecute(resp)
                                 ELSE searchRecipesExecute(resp) :
                                     resp \in StoreResponses} :
                             o.kind = "rejected"}}

\* the characters of search queries
QueryAlphabet == {QUOTE, BSL, LF, CR, SP, "n"}

\* every query up to the bound
Queries == StringsUpTo(QueryAlphabet, MaxQueryLen)

\* queries that are blank, and two that are not
FewQueries == {<<>>, <<LF, SP, NBSP>>, <<SP, "tomato", SP, "soup", LF>>}

\* one call of trackExternalOperation, step by step: where it stands (idle,
\* executing, flushing, settled), whether it is in the try or the catch block,
\* how often execute was invoked, the trace ended and a flush settled, what
\* execute settled with, the error the catch block holds, and what the call
\* settled with
InitTrack ==
    [pc |-> "idle", block |-> "none", executes |-> 0, ends |-> 0, flushes |-> 0,
     traced |-> FALSE, executed |-> NoOutcome, held |-> NoCaught,
     outcome |-> NoOutcome]

\* the library when the process starts: nothing cached, nothing called
InitLib ==
    [env |-> UnsetEnv, cachedClient |-> NoClient, opikClient |-> FALSE, created |-> 0,
     op |-> "none", configReads |-> 0, returned |-> NoClient, arg |-> <<>>,
     embedded |-> <<>>, httpCalls |-> 0, traces |-> 0,
     storeResponse |-> NoStoreResponse, outcome |-> NoOutcome,
     track |-> InitTrack]

-----------------------------------------------------------------------------
(* The state machine: one request (or one direct call of the extractor)    *)
(* at a time, from its start to its answer.                                *)

\* what the page submits: trimmed, non-empty texts (search terms or URLs)
PageQueries == {"a", "b"}

\* recipe === null; a shown recipe is the scrape result for url, answered to
\* the submit numbered of
NoRecipe == [url |-> "", of |-> 0]

\* savedRecipeId === null; an id is the one the store gave, through the save
\* request numbered by, to the recipe of url shown by submit of
NoSavedId == [url |-> "", of |-> 0, by |-> 0]

\* the page after its first render, with no request issued; searchResults,
\* searchError, scrapeError and saveError hold the number of the request whose
\* answer they are, 0 for the empty list and for null
InitPage ==
    [mode |-> "search", isLoading |-> FALSE, showResults |-> FALSE,
     searchResults |-> 0, searchError |-> 0, recipe |-> NoRecipe, scrapeError |-> 0,
     isSaving |-> FALSE, savedRecipeId |-> NoSavedId, saveError |-> 0,
     pending |-> {}, issued |-> 0, lastSubmit |-> 0, savedOk |-> {},
     resaved |-> FALSE]

Init ==
    /\ pc = "idle"
    /\ endpoint = "none"
    /\ body = NoBody
    /\ sourceUrl = <<>>
    /\ normalizedUrl = <<>>
    /\ fetchCalls = 0
    /\ upstream = NoUpstream
    /\ scrape = NoScrape
    /\ response = NoResponse
    /\ clientCalls = 0
    /\ storeCalls = <<>>
    /\ storeOutcome = NoOutcome
    /\ lib = InitLib
    /\ ui = InitPage

\* no request is being handled
Ready == pc = "idle"

\* a handler that answers without calling the extractor or the store
Answer(ep, b, resp) ==
    /\ pc' = "done"
    /\ endpoint' = ep
    /\ body' = b
    /\ response' = resp
    /\ sourceUrl' = <<>>
    /\ normalizedUrl' = <<>>
    /\ fetchCalls' = 0
    /\ upstream' = NoUpstream
    /\ scrape' = NoScrape
    /\ clientCalls' = 0
    /\ storeCalls' = <<>>
    /\ storeOutcome' = NoOutcome
    /\ lib' = lib
    /\ ui' = ui

\* scrapeRecipeFromUrl(url) up to the await of fetch, called directly
\* (ep = "direct") or by the scrape handler (ep = "scrape")
StartScrape(ep, b, url) ==
    LET n == normalizeRecipeUrl(url)
    IN  /\ endpoint' = ep
        /\ body' = b
        /\ sourceUrl' = url
        /\ upstream' = NoUpstream
        /\ clientCalls' = 0
        /\ storeCalls' = <<>>
        /\ storeOutcome' = NoOutcome
        /\ lib' = lib
        /\ ui' = ui
        /\ IF n.ok
           THEN /\ pc' = "fetching"
                /\ normalizedUrl' = n.url
                /\ fetchCalls' = 1
                /\ scrape' = NoScrape
                /\ response' = NoResponse
           ELSE /\ pc' = "done"
                /\ normalizedUrl' = <<>>
                /\ fetchCalls' = 0
                /\ scrape' = ScrapeRejects(n.error)
                /\ response' = IF ep = "scrape"
                               THEN ScrapeResponse(ScrapeRejects(n.error))
                               ELSE NoResponse

\* a direct call of scrapeRecipeFromUrl
ScrapeCall(urls) ==
    /\ Ready
    /\ \E url \in urls : StartScrape("direct", NoBody, url)

\* POST of the scrape endpoint
ScrapePost ==
    /\ Ready
    /\ \E b \in ScrapeBodies :
          IF ~b.valid
          THEN Answer("scrape", b, ErrorResponse("Invalid JSON payload.", 400))
          ELSE IF IsNullish(b.json)
          THEN Answer("scrape", b, Escapes("TypeError"))   \* payload.url of null
          ELSE LET url == TrimmedField(b.json, "url")
               IN  IF url = <<>>
                   THEN Answer("scrape", b,
                               ErrorResponse("The 'url' field is required.", 400))
                   ELSE StartScrape("scrape", b, url)

\* where a redirecting site sends the fetch
RedirectTarget == <<"https", ":", "/", "/", "moved", "/">>

\* everything the awaited fetch can produce: it throws, or it resolves with a
\* failure status, with a success status and an unreadable body, or with a
\* page, reached directly or through a redirect (a 204 has no content)
Upstreams(pages) ==
    {FetchThrew}
    \cup {FetchResponse(status, readable, EmptyPage) :
              status \in FailureStatuses, readable \in BOOLEAN}
    \cup {FetchResponse(status, FALSE, EmptyPage) : status \in OkStatuses}
    \cup {FetchResponse(200, TRUE, page) : page \in pages}
    \cup {[FetchResponse(200, TRUE, page) EXCEPT !.redirectedTo = RedirectTarget] :
              page \in pages}
    \cup {FetchResponse(204, TRUE, EmptyPage)}

\* a settling that fetches a second time when the first fetch failed
FetchSettlesRetrying(pages) ==
    /\ pc = "fetching"
    /\ \E up \in Upstreams(pages) :
          /\ upstream' = up
          /\ scrape' = ScrapeAfterFetch(normalizedUrl, up)
          /\ fetchCalls' = IF fetchRecipeHtml(up) # NoError
                           THEN fetchCalls + 1 ELSE fetchCalls
    /\ response' = IF endpoint = "scrape" THEN ScrapeResponse(scrape') ELSE NoResponse
    /\ pc' = "done"
    /\ UNCHANGED <<endpoint, body, sourceUrl, normalizedUrl,
                   clientCalls, storeCalls, storeOutcome, lib, ui>>

\* the awaited fetch settles and scrapeRecipeFromUrl runs to its end
FetchSettles(pages) ==
    /\ pc = "fetching"
    /\ \E up \in Upstreams(pages) :
          /\ upstream' = up
          /\ scrape' = ScrapeAfterFetch(normalizedUrl, up)
    /\ response' = IF endpoint = "scrape" THEN ScrapeResponse(scrape') ELSE NoResponse
    /\ pc' = "done"
    /\ UNCHANGED <<endpoint, body, sourceUrl, normalizedUrl, fetchCalls,
                   clientCalls, storeCalls, storeOutcome, lib, ui>>

\* the handler from getWeaviateClient on: the client is returned, or its
\* creation throws (configuration missing or unusable), and the store
\* operation is called
CallStore(ep, b, op, arg, failure) ==
    /\ endpoint' = ep
    /\ body' = b
    /\ clientCalls' = 1
    /\ lib' = lib
    /\ ui' = ui
    /\ \E thrown \in {NoCaught} \cup ClientFailures :
          IF thrown = NoCaught
          THEN /\ pc' = "storing"
               /\ storeCalls' = <<[op |-> op, arg |-> arg]>>
               /\ storeOutcome' = NoOutcome
               /\ response' = NoResponse
          ELSE /\ pc' = "done"
               /\ storeCalls' = <<>>
               /\ storeOutcome' = Rejected(thrown)
               /\ response' = ErrorResponse(failure, 502)

SaveFailure == "Failed to save recipe. Please try again."
SearchFailure == "Failed to search recipes. Please try again."

\* POST of the save endpoint, on body b
SaveHandler(b) ==
    IF ~b.valid
    THEN Answer("save", b, ErrorResponse("Invalid JSON payload.", 400))
    ELSE IF IsNullish(b.json)
    THEN Answer("save", b, Escapes("TypeError"))        \* payload.recipe of null
    ELSE LET validation == validateRecipePayload(Get(b.json, "recipe"))
         IN  IF ~validation.valid
             THEN Answer("save", b, ErrorResponse(validation.errorMessage, 400))
             ELSE /\ CallStore("save", b, "saveRecipe", validation.recipe, SaveFailure)
                  /\ sourceUrl' = <<>>
                  /\ normalizedUrl' = <<>>
                  /\ fetchCalls' = 0
                  /\ upstream' = NoUpstream
                  /\ scrape' = NoScrape

SavePost ==
    /\ Ready
    /\ \E b \in SaveBodies : SaveHandler(b)

\* saveRecipeToApi(recipe) with the recipe the scrape endpoint returned: the
\* extractor's record reaches the save endpoint
SaveScraped ==
    /\ pc = "done"
    /\ endpoint = "scrape"
    /\ response.kind = "json"
    /\ response.status = 200
    /\ LET b == Parsed(JObj(<<Member("recipe", response.data)>>))
           validation == validateRecipePayload(Get(b.json, "recipe"))
       IN  /\ IF ~validation.valid
              THEN /\ pc' = "done"
                   /\ endpoint' = "save"
                   /\ body' = b
                   /\ response' = ErrorResponse(validation.errorMessage, 400)
                   /\ clientCalls' = 0
                   /\ storeCalls' = <<>>
                   /\ storeOutcome' = NoOutcome
                   /\ lib' = lib
                   /\ ui' = ui
              ELSE CallStore("save", b, "saveRecipe", validation.recipe, SaveFailure)
           /\ UNCHANGED <<sourceUrl, normalizedUrl, fetchCalls, upstream, scrape>>

\* POST of the search endpoint
SearchPost ==
    /\ Ready
    /\ \E b \in SearchBodies :
          IF ~b.valid
          THEN Answer("search", b, ErrorResponse("Invalid JSON payload.", 400))
          ELSE IF IsNullish(b.json)
          THEN Answer("search", b, Escapes("TypeError"))   \* payload.query of null
          ELSE LET query == TrimmedField(b.json, "query")
               IN  IF query = <<>>
                   THEN Answer("search", b,
                               ErrorResponse("The 'query' field is required.", 400))
                   ELSE /\ CallStore("search", b, "searchRecipes", query, SearchFailure)
                        /\ sourceUrl' = <<>>
                        /\ normalizedUrl' = <<>>
                        /\ fetchCalls' = 0
                        /\ upstream' = NoUpstream
                        /\ scrape' = NoScrape

\* the awaited store call resolves: NextResponse.json(result) or ({ results })
StoreResolves ==
    /\ pc = "storing"
    /\ \E result \in (IF endpoint = "save" THEN SavedIds ELSE SearchResults) :
          /\ storeOutcome' = Resolved(result)
          /\ response' = OkResponse(IF endpoint = "save" THEN result
                                    ELSE JObj(<<Member("results", result)>>))
    /\ pc' = "done"
    /\ UNCHANGED <<endpoint, body, sourceUrl, normalizedUrl, fetchCalls, upstream,
                   scrape, clientCalls, storeCalls, lib, ui>>

\* the tokens of a text as one string
RECURSIVE Concat(_)
Concat(tokens) == IF tokens = <<>> THEN "" ELSE Head(tokens) \o Concat(Tail(tokens))

\* a catch block that answers with the message of the error it caught
StoreRejectsWithMessage ==
    /\ pc = "storing"
    /\ \E error \in StoreFailures(endpoint) :
          /\ storeOutcome' = Rejected(error)
          /\ response' = ErrorResponse(Concat(error.message), 502)
    /\ pc' = "done"
    /\ UNCHANGED <<endpoint, body, sourceUrl, normalizedUrl, fetchCalls, upstream,
                   scrape, clientCalls, storeCalls, lib, ui>>

\* the awaited store call rejects with one of the errors the client throws
StoreRejects ==
    /\ pc = "storing"
    /\ \E error \in StoreFailures(endpoint) : storeOutcome' = Rejected(error)
    /\ response' = ErrorResponse(IF endpoint = "save" THEN SaveFailure ELSE SearchFailure,
                                 502)
    /\ pc' = "done"
    /\ UNCHANGED <<endpoint, body, sourceUrl, normalizedUrl, fetchCalls, upstream,
                   scrape, clientCalls, storeCalls, lib, ui>>

\* the invocation is over: nothing of it is kept for the next one
Return ==
    /\ pc = "done"
    /\ pc' = "idle"
    /\ endpoint' = "none"
    /\ body' = NoBody
    /\ sourceUrl' = <<>>
    /\ normalizedUrl' = <<>>
    /\ fetchCalls' = 0
    /\ upstream' = NoUpstream
    /\ scrape' = NoScrape
    /\ response' = NoResponse
    /\ clientCalls' = 0
    /\ storeCalls' = <<>>
    /\ storeOutcome' = NoOutcome
    /\ lib' = lib
    /\ ui' = ui

Next ==
    \/ ScrapeCall(UrlStrings)
    \/ ScrapePost
    \/ FetchSettles(Pages)
    \/ SavePost
    \/ SaveScraped
    \/ SearchPost
    \/ StoreResolves
    \/ StoreRejects
    \/ Return

Spec == Init /\ [][Next]_vars

-----------------------------------------------------------------------------
(* The extractor on wider families of pages, one call at a time.           *)

\* an object with the members whose value is not JUndefined
ObjectOf(members) == JObj(SelectSeq(members, LAMBDA m : m.v.t # "undefined"))

FixedUrls == {<<"https", ":", "/", "/", "a", "/", "a">>}

\* pages for title resolution: every combination of the eight candidates
TitleScripts ==
    {<<>>}
    \cup {<<Script(ObjectOf(<<RecipeType,
                              Member("name", name),
                              Member("headline", headline),
                              Member("title", title),
                              Member("recipeIngredient", JArr(<<W("flour")>>))>>))>> :
            name \in {JUndefined, JNull, JStr(<<SP, NBSP>>),
                      JStr(<<LF, "N", SP, SP, "n", SP>>), JNum(5)},
            headline \in {JUndefined, JStr(<<>>), W("H"), JObj(<<>>)},
            title \in {JUndefined, JStr(<<NBSP>>), W("T"), JBool(TRUE)}}

TitleDoms ==
    {[og |-> og, tw |-> tw, ip |-> ip, h1 |-> h1, tt |-> tt] :
        og \in {JUndefined, JStr(<<SP>>), W("Og")},
        tw \in {JUndefined, JStr(<<>>), JStr(<<"Tw", NBSP>>)},
        ip \in {<<>>, <<LF>>, <<"Ip">>},
        h1 \in {<<>>, <<SP, SP>>, <<SP, "H1", LF, LF, "x">>},
        tt \in {<<>>, <<NBSP>>, <<"Tt">>}}

TitlePages ==
    {MakePage(sc, dom, [i \in 1..SelectorCount |-> <<>>]) :
        sc \in TitleScripts, dom \in TitleDoms}

NextTitle ==
    \/ ScrapeCall(FixedUrls)
    \/ FetchSettles(TitlePages)
    \/ Return

SpecTitle == Init /\ [][NextTitle]_vars

\* pages for the DOM fallback: every combination of what the six selectors match
DomScripts ==
    { <<>>,
      <<Script(JObj(<<RecipeType, Member("name", W("Pancakes"))>>))>>,
      <<Script(JObj(<<RecipeType, Member("recipeIngredient", JArr(<<>>))>>))>>,
      <<Script(JObj(<<RecipeType, Member("name", JNum(5))>>))>>,
      <<Script(JObj(<<RecipeType, Member("name", W("Pancakes")),
                      Member("recipeIngredient",
                             JArr(<<JStr(<<NBSP>>), W("flour")>>))>>))>> }

DomHeadings == {<<>>, <<"Simple", SP, "Soup">>}

ItemOf(i) ==
    CASE i = 1 -> "one" [] i = 2 -> "two" [] i = 3 -> "three"
      [] i = 4 -> "four" [] i = 5 -> "five" [] OTHER -> "six"

DomSelectors ==
    {sel \in [1..SelectorCount -> {"none", "blank", "items"}] : TRUE}

SelectorTexts(kind, i) ==
    CASE kind = "none" -> <<>>
      [] kind = "blank" -> << <<SP, NBSP>>, <<>> >>
      [] OTHER -> << <<LF, ItemOf(i), SP>>, <<>>, <<"salt">>, <<ItemOf(i)>> >>

DomPages ==
    {MakePage(sc,
              [og |-> JUndefined, tw |-> JUndefined, ip |-> <<>>, h1 |-> h1, tt |-> <<>>],
              [i \in 1..SelectorCount |-> SelectorTexts(sel[i], i)]) :
        sc \in DomScripts, h1 \in DomHeadings, sel \in DomSelectors}

NextDom ==
    \/ ScrapeCall(FixedUrls)
    \/ FetchSettles(DomPages)
    \/ Return

SpecDom == Init /\ [][NextDom]_vars

\* structured data for the search of the Recipe entry: entries that are
\* recipes, entries that are not, and recipes where the search does not look
RecipeNamed(type, name) ==
    JObj(<<Member("@type", type), Member("name", W(name)),
           Member("recipeIngredient", JArr(<<W("flour")>>))>>)

GraphOf(entries) == JObj(<<Member("@graph", JArr(entries))>>)

JsonLdLeaves ==
    { JNull,
      JStr(<<"Recipe">>),
      Article,
      RecipeNamed(W("Recipe"), "r1"),
      RecipeNamed(JArr(<<JNum(5), W("Thing"), W("RECIPE")>>), "r2"),
      RecipeNamed(JArr(<<W("Article"), JObj(<<>>)>>), "no-recipe-type"),
      JObj(<<Member("@type", W("WebPage")),
             Member("mainEntity", RecipeNamed(W("Recipe"), "under-another-key"))>>),
      JObj(<<Member("@graph", RecipeNamed(W("Recipe"), "graph-is-no-array"))>>),
      JObj(<<Member("@type", W("recipe")), Member("name", W("r3")),
             Member("recipeIngredient", JArr(<<W("flour")>>)),
             Member("@graph", JArr(<<RecipeNamed(W("Recipe"), "below-a-recipe")>>))>>) }

\* the arrays of at most two entries, the first from firsts, the second from
\* seconds
EntryLists(firsts, seconds) ==
    {<<>>} \cup {<<a>> : a \in firsts} \cup {<<a, b>> : a \in firsts, b \in seconds}

\* one more level of nesting: the lists as arrays, as @graph arrays, and as
\* @graph arrays of an object with a type of its own
Nested(lists) ==
    {JArr(entries) : entries \in lists}
    \cup {GraphOf(entries) : entries \in lists}
    \cup {JObj(<<Member("@type", W("WebPage")), Member("@graph", JArr(entries))>>) :
             entries \in lists}

JsonLdShallow == JsonLdLeaves \cup Nested(EntryLists(JsonLdLeaves, JsonLdLeaves))

JsonLdValues ==
    JsonLdShallow
    \cup Nested(EntryLists(JsonLdShallow, {Article, RecipeNamed(W("Recipe"), "r1")}))

\* one script block, or two of which the first is no JSON, is falsy JSON,
\* holds no recipe, or holds one
JsonLdScripts ==
    {<<Script(v)>> : v \in JsonLdValues}
    \cup {<<first, Script(v)>> :
             first \in {BadScript, Script(JNum(0)), Script(Article),
                        Script(GraphOf(<<RecipeNamed(W("Recipe"), "first-block")>>))},
             v \in JsonLdValues}

JsonLdPages ==
    {MakePage(sc,
              [og |-> JUndefined, tw |-> JUndefined, ip |-> <<>>,
               h1 |-> <<"Heading">>, tt |-> <<>>],
              [i \in 1..SelectorCount |-> <<>>]) : sc \in JsonLdScripts}

NextJsonLd ==
    \/ ScrapeCall(FixedUrls)
    \/ FetchSettles(JsonLdPages)
    \/ Return

SpecJsonLd == Init /\ [][NextJsonLd]_vars

-----------------------------------------------------------------------------
(* The store client library called directly, one call at a time.           *)

requestVars == <<pc, endpoint, body, sourceUrl, normalizedUrl, fetchCalls, upstream,
                 scrape, response, clientCalls, storeCalls, storeOutcome>>

\* the library state as a new call finds it: what the previous call left in
\* the module variables, nothing of what it did
ClearCall(l) ==
    [l EXCEPT !.op = "none", !.configReads = 0, !.returned = NoClient, !.arg = <<>>,
              !.embedded = <<>>, !.httpCalls = 0, !.traces = 0,
              !.storeResponse = NoStoreResponse, !.outcome = NoOutcome]

\* process.env is changed
SetEnv(envs) ==
    /\ \E env \in envs :
          /\ env # lib.env
          /\ lib' = [ClearCall(lib) EXCEPT !.op = "setEnv", !.env = env]
    /\ UNCHANGED <<requestVars, ui>>

\* a getWeaviateClient that builds a client on every call
GetWeaviateClientUncached ==
    /\ lib.created < MaxClients
    /\ LET made == NewClient(lib.env, lib.created + 1)
       IN  lib' = [ClearCall(lib) EXCEPT
                      !.op = "getWeaviateClient",
                      !.configReads = 1,
                      !.cachedClient = made.client,
                      !.created = IF made.ok THEN lib.created + 1 ELSE lib.created,
                      !.returned = made.client,
                      !.outcome = IF made.ok THEN Resolved(JUndefined)
                                  ELSE Rejected(made.error)]
    /\ UNCHANGED <<requestVars, ui>>

\* getWeaviateClient()
GetWeaviateClient ==
    /\ IF lib.cachedClient # NoClient
       THEN lib' = [ClearCall(lib) EXCEPT !.op = "getWeaviateClient",
                                          !.returned = lib.cachedClient,
                                          !.outcome = Resolved(JUndefined)]
       ELSE /\ lib.created < MaxClients
            /\ LET made == NewClient(lib.env, lib.created + 1)
               IN  lib' = [ClearCall(lib) EXCEPT
                              !.op = "getWeaviateClient",
                              !.configReads = 1,
                              !.cachedClient = made.client,
                              !.created = IF made.ok THEN lib.created + 1 ELSE lib.created,
                              !.returned = made.client,
                              !.outcome = IF made.ok THEN Resolved(JUndefined)
                                          ELSE Rejected(made.error)]
    /\ UNCHANGED <<requestVars, ui>>

\* __resetWeaviateClientForTesting()
ResetWeaviateClient ==
    /\ lib' = [ClearCall(lib) EXCEPT !.op = "reset", !.cachedClient = NoClient]
    /\ UNCHANGED <<requestVars, ui>>

\* a wrapper that runs the operation before it looks for the tracing client
trackAfterExecute(l, resp, executed) ==
    IF ~l.opikClient /\ ~getOpikConfig(l.env).ok
    THEN [l EXCEPT !.httpCalls = 1, !.storeResponse = resp,
                   !.outcome = Rejected(getOpikConfig(l.env).error)]
    ELSE [l EXCEPT !.opikClient = TRUE, !.traces = 1, !.httpCalls = 1,
                   !.storeResponse = resp, !.outcome = executed]

\* trackExternalOperation(operation, context, execute) in library state l:
\* getOpikClient throws when no tracing client exists and its configuration is
\* missing; otherwise a trace is started and execute sends its request, which
\* the store answers with resp
trackExternalOperation(l, resp, executed) ==
    IF ~l.opikClient /\ ~getOpikConfig(l.env).ok
    THEN [l EXCEPT !.outcome = Rejected(getOpikConfig(l.env).error)]
    ELSE [l EXCEPT !.opikClient = TRUE, !.traces = 1, !.httpCalls = 1,
                   !.storeResponse = resp, !.outcome = executed]

\* saveRecipe(payload) on the cached client
SaveRecipe(responses) ==
    /\ lib.cachedClient # NoClient
    /\ \E resp \in responses :
          lib' = trackExternalOperation([ClearCall(lib) EXCEPT !.op = "saveRecipe"],
                                        resp, saveRecipeExecute(resp))
    /\ UNCHANGED <<requestVars, ui>>

\* a searchRecipes that sends blank queries to the store like any other
SearchRecipesAlways(queries, responses) ==
    /\ lib.cachedClient # NoClient
    /\ \E query \in queries, resp \in responses :
          lib' = trackExternalOperation(
                     [ClearCall(lib) EXCEPT !.op = "searchRecipes", !.arg = query,
                                            !.embedded = escapeGraphQLString(Trim(query))],
                     resp, searchRecipesExecute(resp))
    /\ UNCHANGED <<requestVars, ui>>

\* searchRecipes(query) on the cached client
SearchRecipes(queries, responses) ==
    /\ lib.cachedClient # NoClient
    /\ \E query \in queries, resp \in responses :
          LET trimmedQuery == Trim(query)
              called == [ClearCall(lib) EXCEPT !.op = "searchRecipes", !.arg = query]
          IN  IF trimmedQuery = <<>>
              THEN lib' = [called EXCEPT !.outcome = Resolved(JArr(<<>>))]
              ELSE lib' = trackExternalOperation(
                              [called EXCEPT !.embedded = escapeGraphQLString(trimmedQuery)],
                              resp, searchRecipesExecute(resp))
    /\ UNCHANGED <<requestVars, ui>>

\* the client holder under changes of the store's configuration
NextClient ==
    \/ SetEnv(ClientEnvs)
    \/ GetWeaviateClient
    \/ ResetWeaviateClient

SpecClient == Init /\ [][NextClient]_vars

\* one answer of the store, to a search that only varies the query
OneStoreResponse ==
    {StoreAnswer(200, <<"OK">>, TRUE, JsonBody("{}", JObj(<<>>)))}

\* the store operations under changes of the tracing configuration
NextStore ==
    \/ SetEnv(StoreEnvs)
    \/ GetWeaviateClient
    \/ SaveRecipe(StoreResponses)
    \/ SearchRecipes(FewQueries, StoreResponses)

SpecStore == Init /\ [][NextStore]_vars

\* what the wrapped operation settles with, and what a flush settles with
ExecuteOutcomes ==
    { Resolved(W("id-1")), Resolved(JArr(<<>>)),
      Rejected(ErrorOf(<<"boom">>)), Rejected(RuntimeTypeError(<<"fetch failed">>)) }

FlushOutcomes ==
    { Resolved(JUndefined),
      Rejected(ErrorOf(<<"No such workspace">>)), Rejected(ErrorOf(<<"timeout">>)) }

\* trackExternalOperation is called: getOpikClient throws when no tracing
\* client exists and its configuration is missing; otherwise the trace is
\* created and execute is invoked
TrackCall ==
    /\ lib.track.pc \in {"idle", "settled"}
    /\ IF ~lib.opikClient /\ ~getOpikConfig(lib.env).ok
       THEN lib' = [lib EXCEPT !.track =
                       [InitTrack EXCEPT !.pc = "settled",
                                         !.outcome = Rejected(getOpikConfig(lib.env).error)]]
       ELSE lib' = [lib EXCEPT !.opikClient = TRUE,
                               !.track = [InitTrack EXCEPT !.pc = "executing",
                                                           !.traced = TRUE,
                                                           !.executes = 1]]
    /\ UNCHANGED <<requestVars, ui>>

\* await execute() settles: the try block updates and ends the trace, or the
\* catch block takes the error, updates and ends the trace; either awaits a
\* flush
ExecuteSettles(outcomes) ==
    /\ lib.track.pc = "executing"
    /\ \E executed \in outcomes :
          lib' = [lib EXCEPT !.track =
                     [lib.track EXCEPT
                         !.pc = "flushing",
                         !.block = IF executed.kind = "resolved" THEN "try" ELSE "catch",
                         !.executed = executed,
                         !.held = executed.error,
                         !.ends = @ + 1]]
    /\ UNCHANGED <<requestVars, ui>>

\* await client.flush() settles: in the try block a resolved flush returns the
\* result and a rejected flush enters the catch block, which ends the trace
\* and awaits another flush; in the catch block a resolved flush rethrows the
\* error the block holds and a rejected flush rejects the call
FlushSettles(outcomes) ==
    /\ lib.track.pc = "flushing"
    /\ \E flush \in outcomes :
          lib' = [lib EXCEPT !.track =
                     IF lib.track.block = "try"
                     THEN IF flush.kind = "resolved"
                          THEN [lib.track EXCEPT !.pc = "settled", !.flushes = @ + 1,
                                                 !.outcome = Resolved(lib.track.executed.value)]
                          ELSE [lib.track EXCEPT !.block = "catch", !.flushes = @ + 1,
                                                 !.held = flush.error, !.ends = @ + 1]
                     ELSE [lib.track EXCEPT
                              !.pc = "settled", !.flushes = @ + 1,
                              !.outcome = IF flush.kind = "resolved"
                                          THEN Rejected(lib.track.held)
                                          ELSE Rejected(flush.error)]]
    /\ UNCHANGED <<requestVars, ui>>

\* calls of the wrapper under changes of the tracing configuration
NextTrack ==
    \/ SetEnv(StoreEnvs)
    \/ TrackCall
    \/ ExecuteSettles(ExecuteOutcomes)
    \/ FlushSettles(FlushOutcomes)

SpecTrack == Init /\ [][NextTrack]_vars

\* searchRecipes on every query up to the bound, in a configured deployment
NextEscape ==
    \/ SetEnv({FullEnv})
    \/ GetWeaviateClient
    \/ SearchRecipes(Queries, OneStoreResponse)

SpecEscape == Init /\ [][NextEscape]_vars

-----------------------------------------------------------------------------
(* The page: React state, event handlers and the completions of the        *)
(* requests they start. An event handler runs against the state of the     *)
(* last render; the state updates of one handler run or one completion     *)
(* are applied together.                                                   *)

\* handleModeChange(nextMode)
handleModeChange(modes) ==
    /\ \E nextMode \in modes :
          ui' = [ui EXCEPT !.mode = nextMode, !.showResults = FALSE,
                               !.searchResults = 0, !.searchError = 0,
                               !.recipe = NoRecipe, !.scrapeError = 0,
                               !.savedRecipeId = NoSavedId, !.saveError = 0,
                               !.isSaving = FALSE]
    /\ UNCHANGED <<requestVars, lib>>

\* handleSubmit(query) up to its await: the state is cleared and the search
\* or scrape request of the current mode is sent
handleSubmit(queries) ==
    /\ ui.issued < MaxRequests
    /\ \E query \in queries :
          ui' = [ui EXCEPT
                      !.isLoading = TRUE, !.showResults = FALSE,
                      !.searchResults = 0, !.searchError = 0,
                      !.recipe = NoRecipe, !.scrapeError = 0,
                      !.savedRecipeId = NoSavedId, !.saveError = 0,
                      !.issued = ui.issued + 1,
                      !.lastSubmit = ui.issued + 1,
                      !.pending = ui.pending \cup
                          {[kind |-> IF ui.mode = "search" THEN "search" ELSE "scrape",
                            n |-> ui.issued + 1, url |-> query, of |-> 0]}]
    /\ UNCHANGED <<requestVars, lib>>

\* handleSubmit from its await on: the request of a submit is answered, with
\* results or a recipe, or with an error
SubmitCompletes ==
    /\ \E r \in {q \in ui.pending : q.kind \in {"search", "scrape"}}, ok \in BOOLEAN :
          ui' = [ui EXCEPT
                      !.pending = ui.pending \ {r},
                      !.searchResults = IF r.kind = "search" /\ ok THEN r.n ELSE @,
                      !.showResults = IF r.kind = "search" /\ ok THEN TRUE ELSE @,
                      !.searchError = IF r.kind = "search" /\ ~ok THEN r.n ELSE @,
                      !.recipe = IF r.kind = "scrape" /\ ok
                                 THEN [url |-> r.url, of |-> r.n] ELSE @,
                      !.scrapeError = IF r.kind = "scrape" /\ ~ok THEN r.n ELSE @,
                      !.isLoading = FALSE]
    /\ UNCHANGED <<requestVars, lib>>

\* the card with the Save button is rendered
CardShown == ui.mode = "create" /\ ui.recipe # NoRecipe /\ ~ui.isLoading

\* a click on Save that passes the guards of CreateCard.handleSave and of
\* handleSaveRecipe, up to the await: the save request is sent
handleSaveRecipe ==
    /\ CardShown
    /\ ~ui.isSaving
    /\ ui.savedRecipeId = NoSavedId
    /\ ui.issued < MaxRequests
    /\ ui' = [ui EXCEPT
                   !.isSaving = TRUE, !.saveError = 0,
                   !.issued = ui.issued + 1,
                   !.resaved = ui.resaved \/ ui.recipe.of \in ui.savedOk,
                   !.pending = ui.pending \cup
                       {[kind |-> "save", n |-> ui.issued + 1,
                         url |-> ui.recipe.url, of |-> ui.recipe.of]}]
    /\ UNCHANGED <<requestVars, lib>>

\* handleSaveRecipe from its await on: the save request is answered with an
\* id, or fails
SaveCompletes ==
    /\ \E r \in {q \in ui.pending : q.kind = "save"}, ok \in BOOLEAN :
          ui' = [ui EXCEPT
                      !.pending = ui.pending \ {r},
                      !.savedRecipeId = IF ok THEN [url |-> r.url, of |-> r.of, by |-> r.n]
                                        ELSE @,
                      !.savedOk = IF ok THEN ui.savedOk \cup {r.of} ELSE @,
                      !.saveError = IF ok THEN @ ELSE r.n,
                      !.isSaving = FALSE]
    /\ UNCHANGED <<requestVars, lib>>

NextPage ==
    \/ handleModeChange({"search", "create"})
    \/ handleSubmit(PageQueries)
    \/ SubmitCompletes
    \/ handleSaveRecipe
    \/ SaveCompletes

SpecPage == Init /\ [][NextPage]_vars

-----------------------------------------------------------------------------
(* Properties.                                                             *)

\* scrapeRecipeFromUrl has been called in the current invocation
Invoked == pc = "fetching" \/ scrape.kind # "none"

\* the call has settled with a rejection of the given class and status
RejectedWith(class, status) ==
    /\ pc # "fetching"
    /\ scrape.kind = "error"
    /\ scrape.error.class = class
    /\ scrape.error.status = status

\* url parses as an absolute URL whose scheme is http or https
IsHttpUrl(url) ==
    /\ ParseUrl(url).ok
    /\ ParseUrl(url).protocol \in {<<"http", ":">>, <<"https", ":">>}

\* C1: every call of scrapeRecipeFromUrl with a string that does not parse as
\* an absolute URL, or parses with a scheme other than http/https, rejects with
\* a RecipeScrapeRequestError of status 400, and no fetch is made in that call.
C1_InvalidUrlRejectedWithoutFetch ==
    (Invoked /\ ~IsHttpUrl(sourceUrl))
        => (RejectedWith("RecipeScrapeRequestError", 400) /\ fetchCalls = 0
            /\ upstream.kind = "none")

\* a parsable URL with the ftp scheme was submitted and rejected
C1_Witness ==
    /\ endpoint = "direct"
    /\ sourceUrl = <<"ftp", ":", "/", "a">>
    /\ ParseUrl(sourceUrl).ok
    /\ RejectedWith("RecipeScrapeRequestError", 400)
    /\ fetchCalls = 0

\* the page fetch completed with a status outside 200..299
NonSuccess ==
    /\ pc # "fetching"
    /\ upstream.kind = "response"
    /\ (upstream.status < 200 \/ upstream.status > 299)

\* the fetch threw, or the body of a success response could not be read
TransportFailure ==
    /\ pc # "fetching"
    /\ \/ upstream.kind = "throws"
       \/ /\ upstream.kind = "response"
          /\ upstream.status >= 200 /\ upstream.status <= 299
          /\ ~upstream.readable

\* C2: a non-success upstream status s rejects with a RecipeScrapeRequestError
\* of status s when 400 <= s < 500 and of status 502 otherwise; a fetch that
\* throws, or a body that cannot be read, rejects with status 502.
C2_FetchFailureStatus ==
    /\ NonSuccess =>
          RejectedWith("RecipeScrapeRequestError",
                       IF upstream.status >= 400 /\ upstream.status < 500
                       THEN upstream.status ELSE 502)
    /\ TransportFailure => RejectedWith("RecipeScrapeRequestError", 502)

\* an upstream 404 was passed through and an upstream 500 would not be: the
\* state shown is the 404
C2_Witness ==
    /\ endpoint = "direct"
    /\ upstream.kind = "response"
    /\ upstream.status = 404
    /\ RejectedWith("RecipeScrapeRequestError", 404)

\* the page was fetched: a success status and a readable body
Fetched ==
    /\ pc # "fetching"
    /\ upstream.kind = "response"
    /\ upstream.status >= 200 /\ upstream.status <= 299
    /\ upstream.readable

\* C3: for a fetched page the call either returns the complete record (a
\* non-empty title, at least one ingredient, the normalized URL) or rejects
\* with a RecipeScrapeParseError of status 422 because the title is empty or
\* no ingredient was resolved; nothing else happens.
C3_RecordOrParseError ==
    Fetched =>
        \/ /\ scrape.kind = "record"
           /\ scrape.title # <<>>
           /\ Len(scrape.ingredients) > 0
           /\ scrape.record = [title |-> scrape.title,
                               ingredients |-> scrape.ingredients,
                               sourceUrl |-> normalizedUrl]
        \/ /\ RejectedWith("RecipeScrapeParseError", 422)
           /\ (scrape.title = <<>> \/ Len(scrape.ingredients) = 0)

\* first occurrences of the items, in order
RECURSIVE Dedup(_)
Dedup(items) ==
    IF items = <<>> THEN <<>>
    ELSE LET front == Dedup(SubSeq(items, 1, Len(items) - 1))
             last == items[Len(items)]
         IN  IF \E i \in 1..Len(front) : front[i] = last THEN front
             ELSE Append(front, last)

\* the normalized texts that are not empty, in order
NormalizedTexts(texts) ==
    SelectSeq([i \in 1..Len(texts) |-> cleanText(texts[i])], LAMBDA v : v # <<>>)

\* the Recipe entry of the fetched page (JNull when it has none)
FoundRecipe == extractRecipeFromJsonLd(upstream.page)

\* the fetched page holds a Recipe entry whose name is a string that is not
\* blank and whose recipeIngredient is a list of strings, one at least not blank
HasNameAndIngredientStrings ==
    /\ Fetched
    /\ Truthy(FoundRecipe)
    /\ Get(FoundRecipe, "name").t = "str"
    /\ Trim(Get(FoundRecipe, "name").s) # <<>>
    /\ Get(FoundRecipe, "recipeIngredient").t = "arr"
    /\ \A i \in 1..Len(Get(FoundRecipe, "recipeIngredient").a) :
          Get(FoundRecipe, "recipeIngredient").a[i].t = "str"
    /\ \E i \in 1..Len(Get(FoundRecipe, "recipeIngredient").a) :
          Trim(Get(FoundRecipe, "recipeIngredient").a[i].s) # <<>>

\* C4: a page whose Recipe entry has a non-empty name and a list of
\* ingredient strings yields a record with that name, normalized, as title and
\* the normalized ingredient strings in source order, first occurrences only,
\* whatever the DOM holds.
C4_StructuredDataWins ==
    HasNameAndIngredientStrings =>
        /\ scrape.kind = "record"
        /\ scrape.record.title = cleanText(Get(FoundRecipe, "name").s)
        /\ scrape.record.ingredients =
              Dedup(NormalizedTexts(
                  [i \in 1..Len(Get(FoundRecipe, "recipeIngredient").a) |->
                      Get(FoundRecipe, "recipeIngredient").a[i].s]))

\* the call got as far as resolving the ingredients
IngredientsResolved == Fetched /\ ~scrape.titleThrew

\* the structured data of the fetched page yields no ingredient
NoStructuredIngredients ==
    \/ ~Truthy(FoundRecipe)
    \/ normalizeIngredientList(
           Coalesce(Get(FoundRecipe, "recipeIngredient"),
               Coalesce(Get(FoundRecipe, "ingredients"),
                        Get(FoundRecipe, "ingredient")))) = <<>>

\* the selectors that match an element, and those that match an element with
\* text
MatchingSelectors == {i \in 1..SelectorCount : Len(upstream.page.selectors[i]) > 0}

SelectorsWithText ==
    {i \in 1..SelectorCount :
        \E m \in 1..Len(upstream.page.selectors[i]) :
            Trim(upstream.page.selectors[i][m]) # <<>>}

Least(S) == CHOOSE i \in S : \A m \in S : i <= m

\* the items of one selector of the fetched page
ItemsOfSelector(i) == Dedup(NormalizedTexts(upstream.page.selectors[i]))

\* the fetched page has no Recipe entry and its first h1 has text
HeadingOnly == ~Truthy(FoundRecipe) /\ Trim(upstream.page.h1) # <<>>

\* C5 as stated: when structured data yields no ingredients, the list is the
\* items of the first selector that matches any element, and a page with a
\* heading and a matching selector succeeds.
C5_FirstMatchingSelector ==
    (IngredientsResolved /\ NoStructuredIngredients) =>
        /\ scrape.ingredients =
              IF MatchingSelectors = {} THEN <<>>
              ELSE ItemsOfSelector(Least(MatchingSelectors))
        /\ (HeadingOnly /\ MatchingSelectors # {}) => scrape.kind = "record"

\* C5: when structured data yields no ingredients, the list is the items of
\* the first selector, in the fixed order, that matches an element whose text
\* is not empty after normalization; items of no other selector are in it; a
\* page with no Recipe entry, a heading with text and such a selector succeeds
\* with exactly those items.
C5_FirstSelectorWithText ==
    (IngredientsResolved /\ NoStructuredIngredients) =>
        /\ scrape.ingredients =
              IF SelectorsWithText = {} THEN <<>>
              ELSE ItemsOfSelector(Least(SelectorsWithText))
        /\ (HeadingOnly /\ SelectorsWithText # {}) =>
              /\ scrape.kind = "record"
              /\ scrape.record.ingredients = ItemsOfSelector(Least(SelectorsWithText))

\* the first selector matches only blank elements, the third and the fifth
\* match items: the record holds the items of the third
C5_Witness ==
    /\ Fetched
    /\ HeadingOnly
    /\ MatchingSelectors = {1, 3, 5}
    /\ SelectorsWithText = {3, 5}
    /\ scrape.kind = "record"
    /\ scrape.record.ingredients = << <<"three">>, <<"salt">> >>

\* the text of a candidate: an absent or null field counts as the empty string
TextOf(j) == IF j.t = "str" THEN j.s ELSE <<>>

\* the eight title candidates of the fetched page in the stated order; the
\* first three only when the page has a Recipe entry
OrderedTitleTexts ==
    (IF Truthy(FoundRecipe)
     THEN << TextOf(Get(FoundRecipe, "name")),
             TextOf(Get(FoundRecipe, "headline")),
             TextOf(Get(FoundRecipe, "title")) >>
     ELSE <<>>)
    \o << TextOf(upstream.page.ogTitle),
          TextOf(upstream.page.twitterTitle),
          upstream.page.itempropName,
          upstream.page.h1,
          upstream.page.title >>

\* C6: the title resolveTitle returns is the first candidate, in the order
\* name, headline, title, og:title, twitter:title, first [itemprop='name'],
\* first h1, <title>, that is non-empty after normalization, normalized; it is
\* empty only when every candidate normalizes to empty.
C6_FirstNonEmptyCandidate ==
    (Fetched /\ ~scrape.titleThrew) =>
        LET texts == OrderedTitleTexts
            hits == {i \in 1..Len(texts) : Trim(texts[i]) # <<>>}
        IN  IF hits = {} THEN scrape.title = <<>>
            ELSE /\ scrape.title = cleanText(texts[Least(hits)])
                 /\ scrape.title # <<>>

\* the name is blank, the headline is not, and later candidates have text too:
\* the headline is the title
C6_Witness ==
    /\ Fetched
    /\ Truthy(FoundRecipe)
    /\ Get(FoundRecipe, "name") = JStr(<<SP, NBSP>>)
    /\ Get(FoundRecipe, "headline") = JStr(<<"H">>)
    /\ Get(FoundRecipe, "title") = JStr(<<"T">>)
    /\ upstream.page.ogTitle = JStr(<<"Og">>)
    /\ scrape.title = <<"H">>

\* C7: every record scrapeRecipeFromUrl returns is accepted by
\* validateRecipePayload, and the validated recipe equals the record field for
\* field; posted to the save endpoint, the record is what saveRecipe receives.
C7_RecordRoundTrip ==
    scrape.kind = "record" =>
        /\ validateRecipePayload(RecipeJson(scrape.record)).valid
        /\ validateRecipePayload(RecipeJson(scrape.record)).recipe = scrape.record
        /\ endpoint = "save" =>
              /\ ~(response.kind = "json" /\ response.status = 400)
              /\ clientCalls = 1
              /\ \A i \in 1..Len(storeCalls) : storeCalls[i].arg = scrape.record

\* a scraped record of three ingredients reached saveRecipe unchanged
C7_Witness ==
    /\ scrape.kind = "record"
    /\ endpoint = "save"
    /\ pc = "storing"
    /\ Len(scrape.record.ingredients) = 3
    /\ storeCalls = <<[op |-> "saveRecipe", arg |-> scrape.record]>>

\* the scrape handler has answered
ScrapeAnswered == endpoint = "scrape" /\ pc = "done" /\ response.kind = "json"

\* C8 as stated: the scrape endpoint answers every fetch failure with 502, and
\* its responses carry only the statuses 200, 400, 422, 502 and 500.
C8_FetchFailureIs502 ==
    /\ (endpoint = "scrape" /\ (NonSuccess \/ TransportFailure)) =>
          (response.kind = "json" /\ response.status = 502)
    /\ ScrapeAnswered => response.status \in {200, 400, 422, 502, 500}

\* C8: the scrape endpoint answers a fetch failure with the status of the
\* extractor's error: the upstream status s when 400 <= s < 500, and 502 for
\* every other non-success status, a fetch that throws and an unreadable body;
\* its responses carry the status 200, a status of 400..499, 502 or 500.
C8_FetchFailureKeepsExtractorStatus ==
    /\ (endpoint = "scrape" /\ NonSuccess) =>
          /\ response.kind = "json"
          /\ response.status = IF upstream.status >= 400 /\ upstream.status < 500
                               THEN upstream.status ELSE 502
    /\ (endpoint = "scrape" /\ TransportFailure) =>
          (response.kind = "json" /\ response.status = 502)
    /\ ScrapeAnswered => response.status \in ({200, 500, 502} \cup 400..499)

\* an upstream 404 was answered with 404
C8_Witness ==
    /\ ScrapeAnswered
    /\ upstream.kind = "response"
    /\ upstream.status = 404
    /\ response.status = 404
    /\ response.error = "Recipe request failed with status 404."

\* the trimmed text of a field of a body, empty when the body is no object,
\* the field is absent or it is no string
FieldText(json, field) ==
    IF json.t = "obj" /\ HasKey(json, field) /\ Get(json, field).t = "str"
    THEN Trim(Get(json, field).s) ELSE <<>>

\* the recipe field of a body, JUndefined when the body is no object
RecipeField(json) ==
    IF json.t = "obj" /\ HasKey(json, "recipe") THEN Get(json, "recipe") ELSE JUndefined

\* the recipe field breaks one of the save endpoint's rules
BadRecipe(recipe) ==
    \/ recipe.t # "obj"
    \/ Get(recipe, "title").t # "str" \/ Trim(Get(recipe, "title").s) = <<>>
    \/ Get(recipe, "sourceUrl").t # "str" \/ Trim(Get(recipe, "sourceUrl").s) = <<>>
    \/ Get(recipe, "ingredients").t # "arr"
    \/ \E i \in 1..Len(Get(recipe, "ingredients").a) :
          \/ Get(recipe, "ingredients").a[i].t # "str"
          \/ Trim(Get(recipe, "ingredients").a[i].s) = <<>>

\* the body handed to the current handler is unparsable or lacks what the
\* handler requires
BadBody ==
    /\ endpoint \in {"scrape", "save", "search"}
    /\ \/ ~body.valid
       \/ endpoint = "scrape" /\ FieldText(body.json, "url") = <<>>
       \/ endpoint = "search" /\ FieldText(body.json, "query") = <<>>
       \/ endpoint = "save" /\ BadRecipe(RecipeField(body.json))

\* C9: on every bad body (unparsable, or any JSON value without the required
\* field or with an empty one) the scrape, save and search handlers return a
\* JSON error response with a 400-class status; no exception escapes.
C9_BadBodyAnswered400 ==
    BadBody =>
        /\ pc = "done"
        /\ response.kind = "json"
        /\ response.status >= 400 /\ response.status <= 499
        /\ response.error # ""

\* C10: the save endpoint returns 400 with an error body, without obtaining
\* the store client or calling saveRecipe, whenever the body is not valid JSON
\* or its recipe field is missing, not an object, or breaks a field rule.
C10_InvalidRecipeNeverStored ==
    (endpoint = "save" /\ (~body.valid \/ BadRecipe(RecipeField(body.json)))) =>
        /\ pc = "done"
        /\ response.kind = "json"
        /\ response.status = 400
        /\ response.error # ""
        /\ clientCalls = 0
        /\ storeCalls = <<>>

\* the search endpoint's body is unparsable or its query is absent, no string,
\* or blank
BadSearchBody ==
    endpoint = "search" /\ (~body.valid \/ FieldText(body.json, "query") = <<>>)

\* the store client was handed to the current handler
ClientObtained == clientCalls = 1 /\ ~(pc = "done" /\ storeCalls = <<>>)

\* C11: the search endpoint returns 400 with an error body, without obtaining
\* the store client or calling searchRecipes, when the body is not valid JSON
\* or the query is absent, no string or blank; otherwise, once it holds the
\* client, it calls searchRecipes exactly once with the trimmed query, and
\* when that call resolves it returns 200 with { results } equal to what the
\* client returned.
C11_SearchEndpoint ==
    /\ BadSearchBody =>
          /\ pc = "done"
          /\ response.kind = "json"
          /\ response.status = 400
          /\ response.error # ""
          /\ clientCalls = 0
          /\ storeCalls = <<>>
    /\ (endpoint = "search" /\ ~BadSearchBody) =>
          /\ clientCalls = 1
          /\ ClientObtained =>
                storeCalls = <<[op |-> "searchRecipes",
                                arg |-> FieldText(body.json, "query")]>>
          /\ storeOutcome.kind = "resolved" =>
                response = OkResponse(JObj(<<Member("results", storeOutcome.value)>>))

\* a search body of JSON null has left the handler through an exception
C11_NullBodyEscapes ==
    /\ endpoint = "search"
    /\ body.valid /\ body.json = JNull
    /\ pc = "done"
    /\ response.kind = "throw"

\* C11 holds in every state but those of a null body
C11_ExceptNullBody ==
    (endpoint = "search" /\ body.valid /\ IsNullish(body.json)) \/ C11_SearchEndpoint

\* a search with surrounding white space reached the client trimmed, resolved,
\* and was answered with the client's results
C11_TrimmedSearchAnswered ==
    /\ endpoint = "search"
    /\ body.json = JObj(<<Member("query", JStr(<<SP, "tomato", SP, "soup", SP>>))>>)
    /\ storeCalls = <<[op |-> "searchRecipes", arg |-> <<"tomato", SP, "soup">>]>>
    /\ storeOutcome.kind = "resolved"
    /\ response.status = 200
    /\ Len(Get(response.data, "results").a) = 1

\* the save or search handler caught an error of the store client: its
\* creation threw, or the store call rejected
StoreFailed ==
    /\ endpoint \in {"save", "search"}
    /\ pc = "done"
    /\ storeOutcome.kind = "rejected"

\* the fixed message of the current handler's catch block
GenericFailure == IF endpoint = "save" THEN SaveFailure ELSE SearchFailure

\* C12 as stated: when the store client fails during save or search the
\* endpoint returns 502 with an error body carrying the store's error message
\* when one can be extracted, and a generic message otherwise.
C12_StoreMessageReturned ==
    StoreFailed =>
        /\ response.kind = "json"
        /\ response.status = 502
        /\ response.error = IF storeOutcome.error.message # <<>>
                            THEN Concat(storeOutcome.error.message)
                            ELSE GenericFailure

\* C12: when the store client fails during save or search (its creation
\* throws or the store call rejects) the endpoint returns 502 with the fixed
\* message of its handler, whatever the message of the error it caught.
C12_StoreFailureIsGeneric502 ==
    StoreFailed =>
        /\ response.kind = "json"
        /\ response.status = 502
        /\ response.error = GenericFailure
        /\ response.data = JUndefined

\* a save was rejected with the store's own error text in the message, and
\* answered with the handler's message
C12_Witness ==
    /\ endpoint = "save"
    /\ StoreFailed
    /\ storeCalls # <<>>
    /\ \E i \in 1..Len(storeOutcome.error.message) :
          storeOutcome.error.message[i] = "boom"
    /\ response = ErrorResponse(SaveFailure, 502)

\* the last library call was searchRecipes with an empty or white-space query
BlankSearch == lib.op = "searchRecipes" /\ Trim(lib.arg) = <<>>

\* C13: searchRecipes called with an empty or whitespace-only query returns
\* an empty list and issues no HTTP request (and starts no trace), whatever
\* the tracing configuration.
C13_BlankQueryNoRequest ==
    BlankSearch =>
        /\ lib.outcome = Resolved(JArr(<<>>))
        /\ lib.httpCalls = 0
        /\ lib.traces = 0
        /\ lib.storeResponse = NoStoreResponse

\* a query of a line feed, a space and a no-break space was answered with the
\* empty list while the tracing configuration was missing
C13_Witness ==
    /\ lib.op = "searchRecipes"
    /\ lib.arg = <<LF, SP, NBSP>>
    /\ ~getOpikConfig(lib.env).ok
    /\ lib.outcome = Resolved(JArr(<<>>))
    /\ lib.httpCalls = 0

\* what a caller sees of an error without reading its message
Signature(error) == <<error.class, error.status>>

\* the signatures of the errors of input validation, over every string
ValidationSignatures ==
    {Signature(normalizeRecipeUrl(url).error) :
        url \in {u \in UrlStrings : ~normalizeRecipeUrl(u).ok}}

\* the signatures of the errors of the page fetch, over every upstream
FetchSignatures ==
    {Signature(fetchRecipeHtml(up)) :
        up \in {u \in Upstreams(Pages) : fetchRecipeHtml(u) # NoError}}

\* the current call failed input validation / the page fetch / the parse
ValidationFailed == Invoked /\ ~IsHttpUrl(sourceUrl) /\ scrape.kind = "error"
FetchFailed == (NonSuccess \/ TransportFailure) /\ scrape.kind = "error"
ParseFailed == Fetched /\ scrape.kind = "error"

\* C14: the three extractor failure kinds are pairwise distinguishable from
\* class and status alone: no input-validation failure and upstream-fetch
\* failure carry the same class and status, and no parse failure carries the
\* class and status of a failure of one of the other two kinds.
C14_KindsDistinguishable ==
    /\ FetchFailed => Signature(scrape.error) \notin ValidationSignatures
    /\ ValidationFailed => Signature(scrape.error) \notin FetchSignatures
    /\ ParseFailed =>
          Signature(scrape.error) \notin (ValidationSignatures \cup FetchSignatures)

\* an upstream answer of status 400 was rejected with the class and status of
\* an invalid URL
C14_Upstream400LooksInvalid ==
    /\ FetchFailed
    /\ upstream.status = 400
    /\ fetchCalls = 1
    /\ Signature(scrape.error) = <<"RecipeScrapeRequestError", 400>>
    /\ Signature(scrape.error) \in ValidationSignatures

\* C14 holds in every state but those of an upstream status 400 and those of
\* an invalid URL
C14_ExceptStatus400 ==
    \/ FetchFailed /\ upstream.status = 400
    \/ ValidationFailed
    \/ C14_KindsDistinguishable

\* part occurs in text as a run of consecutive tokens
Contains(text, part) ==
    \E i \in 0..(Len(text) - Len(part)) : SubSeq(text, i + 1, i + Len(part)) = part

\* texts joined by "; "
RECURSIVE Semicolons(_)
Semicolons(texts) ==
    IF texts = <<>> THEN <<>>
    ELSE IF Len(texts) = 1 THEN texts[1]
    ELSE texts[1] \o <<"; ">> \o Semicolons(Tail(texts))

\* the non-empty string messages of the object entries of a list
MessagesOf(entries) ==
    LET text(entry) == IF entry.t = "obj" /\ Get(entry, "message").t = "str"
                       THEN Get(entry, "message").s ELSE <<>>
    IN  SelectSeq([i \in 1..Len(entries) |-> text(entries[i])], LAMBDA m : m # <<>>)

\* the error text an upstream body carries: the messages of its error
\* entries, else its message, else its error string, else the raw body
UpstreamErrorText(storeBody) ==
    LET json == IF storeBody.valid /\ storeBody.raw # <<>> THEN storeBody.json
                ELSE JUndefined
        structured == json.t \in {"obj", "arr"}
        entries == IF structured /\ Get(json, "error").t = "arr"
                   THEN MessagesOf(Get(json, "error").a) ELSE <<>>
    IN  IF entries # <<>> THEN Semicolons(entries)
        ELSE IF structured /\ Get(json, "message").t = "str"
                /\ Get(json, "message").s # <<>>
        THEN Get(json, "message").s
        ELSE IF structured /\ Get(json, "error").t = "str" /\ Get(json, "error").s # <<>>
        THEN Get(json, "error").s
        ELSE storeBody.raw

\* the last library call sent its request and the store's answer was read
StoreAnswered ==
    /\ lib.op \in {"saveRecipe", "searchRecipes"}
    /\ lib.httpCalls = 1
    /\ lib.storeResponse.kind = "response"
    /\ lib.storeResponse.readable

\* the JSON value of the answer's body, JUndefined when it is no JSON
AnswerJson ==
    IF lib.storeResponse.body.valid /\ lib.storeResponse.body.raw # <<>>
    THEN lib.storeResponse.body.json ELSE JUndefined

\* the answer's body carries a non-empty string id
AnswerHasId ==
    AnswerJson.t = "obj" /\ Get(AnswerJson, "id").t = "str" /\ Get(AnswerJson, "id").s # <<>>

\* the answer's body carries a non-empty errors array
AnswerHasErrors ==
    AnswerJson.t = "obj" /\ Get(AnswerJson, "errors").t = "arr"
    /\ Len(Get(AnswerJson, "errors").a) > 0

RejectedWithError(message) ==
    lib.outcome.kind = "rejected" /\ lib.outcome.error = [name |-> "Error", message |-> message]

C15_SearchErrorsRejected ==
    /\ lib.op = "searchRecipes"
    /\ StoreAnswered
    /\ lib.storeResponse.status = 200
    /\ RejectedWithError(<<"Weaviate search error: ", "e1", "; ", "e2">>)

\* every double quote and backslash of the text is the second token of an
\* escape pair, every backslash opens one, and no line feed occurs
RECURSIVE WellEscaped(_)
WellEscaped(text) ==
    IF text = <<>> THEN TRUE
    ELSE IF Head(text) = BSL
    THEN /\ Len(text) >= 2
         /\ text[2] \in {QUOTE, BSL, "n"}
         /\ WellEscaped(SubSeq(text, 3, Len(text)))
    ELSE Head(text) \notin {QUOTE, LF} /\ WellEscaped(Tail(text))

\* the string a GraphQL string literal with this text denotes
RECURSIVE Unescape(_)
Unescape(text) ==
    IF text = <<>> THEN <<>>
    ELSE IF Head(text) = BSL /\ Len(text) >= 2
    THEN <<IF text[2] = "n" THEN LF ELSE text[2]>> \o Unescape(SubSeq(text, 3, Len(text)))
    ELSE <<Head(text)>> \o Unescape(Tail(text))

\* C16: for every query string, the text searchRecipes embeds between the
\* double quotes of the GraphQL query has no unescaped double quote, no
\* unescaped backslash and no raw line feed, and unescaping it gives back the
\* trimmed query.
C16_EmbeddedQueryEscaped ==
    (lib.op = "searchRecipes" /\ ~BlankSearch) =>
        /\ lib.httpCalls = 1
        /\ WellEscaped(lib.embedded)
        /\ Unescape(lib.embedded) = Trim(lib.arg)

\* a query of a backslash, a line feed and a double quote was embedded as
\* three escape pairs
C16_Witness ==
    /\ lib.op = "searchRecipes"
    /\ lib.arg = <<BSL, LF, QUOTE>>
    /\ lib.embedded = <<BSL, BSL, BSL, "n", BSL, QUOTE>>
    /\ lib.httpCalls = 1

\* C17: every invocation of scrapeRecipeFromUrl performs at most one outbound
\* fetch, exactly one when the URL passes validation and none otherwise,
\* whatever the outcome (record, upstream error status, transport failure,
\* parse failure); between invocations nothing of the last one is kept.
C17_OneFetchPerInvocation ==
    /\ fetchCalls \in {0, 1}
    /\ Invoked => fetchCalls = (IF IsHttpUrl(sourceUrl) THEN 1 ELSE 0)
    /\ pc = "idle" =>
          /\ fetchCalls = 0
          /\ normalizedUrl = <<>>
          /\ upstream = NoUpstream
          /\ scrape = NoScrape

\* a call whose fetch threw has ended with the one fetch it made
C17_Witness ==
    /\ endpoint = "direct"
    /\ pc = "done"
    /\ IsHttpUrl(sourceUrl)
    /\ upstream.kind = "throws"
    /\ RejectedWith("RecipeScrapeRequestError", 502)
    /\ fetchCalls = 1

\* a call whose page had no title has ended with the one fetch it made
C17_ParseFailureOneFetch ==
    /\ pc = "done"
    /\ Fetched
    /\ RejectedWith("RecipeScrapeParseError", 422)
    /\ fetchCalls = 1

\* C18: the sourceUrl of every record scrapeRecipeFromUrl returns is the
\* serialization of the parsed input URL, whatever the fetched response, and
\* so not the URL a redirect led to.
C18_SourceUrlIsCanonicalInput ==
    scrape.kind = "record" =>
        /\ ParseUrl(sourceUrl).ok
        /\ scrape.record.sourceUrl = ParseUrl(sourceUrl).href
        /\ scrape.record.sourceUrl # RedirectTarget

\* a record for the input HTTPS:a, fetched through a redirect, names
\* https://a/ as its source
C18_Witness ==
    /\ scrape.kind = "record"
    /\ sourceUrl = <<"HTTPS", ":", "a">>
    /\ upstream.redirectedTo = RedirectTarget
    /\ scrape.record.sourceUrl = <<"https", ":", "/", "/", "a", "/">>

\* a variable of the store's configuration is unset or blank
ConfigMissing(env) ==
    \/ env.WEAVIATE_URL.t # "str" \/ Trim(env.WEAVIATE_URL.s) = <<>>
    \/ env.WEAVIATE_API_KEY.t # "str" \/ Trim(env.WEAVIATE_API_KEY.s) = <<>>

\* the store's configuration is present and its URL can serve as a base
ConfigUsable(env) == ~ConfigMissing(env) /\ CanBeBase(Trim(env.WEAVIATE_URL.s))

\* one step of the client holder, as the claim describes it
C19_HolderStep ==
    /\ (lib'.op = "getWeaviateClient" /\ lib.cachedClient # NoClient) =>
          /\ lib'.outcome.kind = "resolved"
          /\ lib'.returned = lib.cachedClient
          /\ lib'.cachedClient = lib.cachedClient
          /\ lib'.configReads = 0
          /\ lib'.created = lib.created
    /\ (lib'.op = "getWeaviateClient" /\ lib.cachedClient = NoClient) =>
          /\ lib'.configReads = 1
          /\ ConfigMissing(lib.env) =>
                /\ lib'.outcome.kind = "rejected"
                /\ lib'.outcome.error.name = "Error"
          /\ lib'.outcome.kind = "rejected" =>
                /\ lib'.cachedClient = NoClient
                /\ lib'.created = lib.created
          /\ ConfigUsable(lib.env) =>
                /\ lib'.outcome.kind = "resolved"
                /\ lib'.returned = lib'.cachedClient
                /\ lib'.cachedClient.id = lib.created + 1
                /\ lib'.cachedClient.baseUrl = Trim(lib.env.WEAVIATE_URL.s)
                /\ lib'.cachedClient.apiKey = Trim(lib.env.WEAVIATE_API_KEY.s)
    /\ lib'.op = "setEnv" =>
          /\ lib'.cachedClient = lib.cachedClient
          /\ lib'.configReads = 0
    /\ lib'.op = "reset" => lib'.cachedClient = NoClient

TracingAbsent ==
    /\ \/ lib.env.OPIK_API_KEY.t # "str" \/ Trim(lib.env.OPIK_API_KEY.s) = <<>>
       \/ lib.env.OPIK_WORKSPACE.t # "str" \/ Trim(lib.env.OPIK_WORKSPACE.s) = <<>>
    /\ ~lib.opikClient

\* C20: with the tracing key or workspace absent, getWeaviateClient still
\* succeeds and a blank-query search still returns the empty list; saveRecipe
\* and a search with a non-blank query reject, and no HTTP request has been
\* sent to the store when they do.
C20_TracingFailsClosedWhenInvoked ==
    TracingAbsent =>
        /\ (lib.op = "getWeaviateClient" /\ ~ConfigMissing(lib.env)) =>
              /\ lib.outcome.kind = "resolved"
              /\ lib.returned # NoClient
        /\ BlankSearch => lib.outcome = Resolved(JArr(<<>>))
        /\ (lib.op = "saveRecipe" \/ (lib.op = "searchRecipes" /\ ~BlankSearch)) =>
              /\ lib.outcome.kind = "rejected"
              /\ lib.outcome.error.name = "Error"
              /\ lib.httpCalls = 0
              /\ lib.traces = 0
              /\ lib.storeResponse = NoStoreResponse

\* with the key set and the workspace blank, a save was rejected for the
\* missing workspace before any request
C20_Witness ==
    /\ lib.op = "saveRecipe"
    /\ lib.env.OPIK_API_KEY = JStr(<<"opik-key">>)
    /\ lib.env.OPIK_WORKSPACE = JStr(<<SP>>)
    /\ TracingAbsent
    /\ lib.outcome = Rejected(ErrorOf(<<"Missing required Opik environment variables: ",
                                        "OPIK_WORKSPACE">>))
    /\ lib.httpCalls = 0

\* with nothing of the tracing configuration set, a search for tomato soup
\* was rejected before any request
C20_SearchRejected ==
    /\ lib.op = "searchRecipes"
    /\ lib.arg = <<SP, "tomato", SP, "soup", LF>>
    /\ lib.env.OPIK_API_KEY = JUndefined
    /\ TracingAbsent
    /\ lib.outcome.kind = "rejected"
    /\ lib.httpCalls = 0

\* the variables were removed after a tracing client had been made: the save
\* went to the store
C20_MemoizedTracingClient ==
    /\ lib.op = "saveRecipe"
    /\ lib.env.OPIK_API_KEY = JUndefined
    /\ lib.opikClient
    /\ lib.httpCalls = 1

\* a text is non-empty and has no white space at either end
TrimmedNonEmpty(text) == text # <<>> /\ Trim(text) = text

\* a recipe as the store must receive it
ValidRecipe(recipe) ==
    /\ TrimmedNonEmpty(recipe.title)
    /\ Len(recipe.ingredients) >= 1
    /\ \A i \in 1..Len(recipe.ingredients) : TrimmedNonEmpty(recipe.ingredients[i])
    /\ recipe.sourceUrl # <<>>

\* the body posted to the save endpoint carries a recipe whose ingredients are
\* the empty list
EmptyIngredientsPosted ==
    /\ endpoint = "save"
    /\ body.valid
    /\ Get(RecipeField(body.json), "ingredients") = JArr(<<>>)

\* C21: every recipe the save endpoint passes to saveRecipe is a valid Recipe
\* (non-empty trimmed title, at least one ingredient, every ingredient a
\* non-empty trimmed string, a non-empty sourceUrl), and a payload with an
\* empty ingredients list is rejected with 400.
C21_OnlyValidRecipesStored ==
    /\ \A i \in 1..Len(storeCalls) :
          storeCalls[i].op = "saveRecipe" => ValidRecipe(storeCalls[i].arg)
    /\ EmptyIngredientsPosted =>
          /\ pc = "done"
          /\ response.kind = "json"
          /\ response.status = 400
          /\ storeCalls = <<>>

\* a recipe with a title, a source and no ingredient has reached saveRecipe
C21_EmptyListStored ==
    /\ EmptyIngredientsPosted
    /\ storeCalls = <<[op |-> "saveRecipe",
                       arg |-> [title |-> <<"Soup">>, ingredients |-> <<>>,
                                sourceUrl |-> <<"http", ":", "/", "/", "a", "/">>]]>>

\* C21 holds in every state but those of an empty ingredients list
C21_ExceptEmptyList == EmptyIngredientsPosted \/ C21_OnlyValidRecipesStored

\* the save requests in flight
PendingSaves == {r \in ui.pending : r.kind = "save"}

\* C22: under any interleaving of Save clicks, submits, mode changes and
\* request completions, at most one save request is in flight at any time, and
\* no save request has been issued for a displayed recipe whose save had
\* already succeeded.
C22_AtMostOneSaveInFlight ==
    /\ Cardinality(PendingSaves) <= 1
    /\ ~ui.resaved

\* two save requests are in flight, for two different recipes
C22_TwoSavesInFlight ==
    \E r1, r2 \in PendingSaves : r1.n # r2.n /\ r1.url # r2.url

\* the second half of C22: every save request is the first to be issued for
\* its displayed recipe after none had succeeded
C22_NoSaveAfterSuccess == ~ui.resaved

\* C27: under any interleaving of submits, Save clicks, mode changes and
\* request completions, whenever a recipe is displayed together with a
\* non-null savedRecipeId (shown as Saved), that id was returned by a save
\* request for that same recipe.
C27_SavedIdBelongsToShownRecipe ==
    (CardShown /\ ui.savedRecipeId # NoSavedId) =>
        ui.savedRecipeId.url = ui.recipe.url

\* the recipe of URL b is shown as saved with the id the store gave to the
\* recipe of URL a, and no save request was ever sent for b
C27_SavedIdOfAnotherRecipe ==
    /\ CardShown
    /\ ui.recipe.url = "b"
    /\ ui.savedRecipeId.url = "a"
    /\ ui.recipe.of \notin ui.savedOk
    /\ PendingSaves = {}

\* the submit requests in flight
PendingSubmits == {r \in ui.pending : r.kind \in {"search", "scrape"}}

\* the numbers of the submits whose answers the page holds
AnswersHeld ==
    {ui.searchResults, ui.searchError, ui.recipe.of, ui.scrapeError} \ {0}

\* C28: when submits overlap, once all requests have completed the search
\* results, recipe and errors held are those of the most recent submit, never
\* those of an earlier one, and isLoading is true in every state in which
\* some submit's request is pending.
C28_LatestSubmitWins ==
    /\ PendingSubmits = {} => AnswersHeld \subseteq {ui.lastSubmit}
    /\ PendingSubmits # {} => ui.isLoading

\* all requests are answered and the results shown are those of the first of
\* two searches
C28_StaleResultsShown ==
    /\ ui.pending = {}
    /\ ui.mode = "search" /\ ui.showResults /\ ~ui.isLoading
    /\ ui.lastSubmit = 2
    /\ ui.searchResults = 1

\* a submit is pending and the page shows the answer of another as if idle
C28_IdleWhilePending ==
    /\ PendingSubmits # {}
    /\ ~ui.isLoading
    /\ ui.showResults

\* a type that designates a Recipe: the string, in any case, or an array
\* containing it
DesignatesRecipe(type) ==
    LET word(v) == v.t = "str" /\ v.s \in {<<"Recipe">>, <<"recipe">>, <<"RECIPE">>}
    IN  word(type) \/ (type.t = "arr" /\ \E i \in 1..Len(type.a) : word(type.a[i]))

\* the objects the search can reach from a value, in pre-order: the entries
\* of arrays in order, an object before the entries of its @graph array
RECURSIVE ReachableObjects(_)
ReachableObjects(value) ==
    IF value.t = "arr"
    THEN Flat([i \in 1..Len(value.a) |-> ReachableObjects(value.a[i])])
    ELSE IF value.t = "obj"
    THEN <<value>> \o (IF Get(value, "@graph").t = "arr"
                       THEN ReachableObjects(Get(value, "@graph")) ELSE <<>>)
    ELSE <<>>

\* the reachable objects of a value that are recipes, in pre-order
ReachableRecipes(value) ==
    SelectSeq(ReachableObjects(value), LAMBDA o : DesignatesRecipe(Get(o, "@type")))

\* the first reachable recipe over the script blocks in document order,
\* JNull when there is none
RECURSIVE FirstRecipe(_)
FirstRecipe(scripts) ==
    IF scripts = <<>> THEN JNull
    ELSE IF Head(scripts).valid /\ ReachableRecipes(Head(scripts).json) # <<>>
    THEN Head(ReachableRecipes(Head(scripts).json))
    ELSE FirstRecipe(Tail(scripts))

\* C23: for every JSON value built from arrays and objects, findRecipeEntry
\* returns the first object in pre-order (array entries in order, descending
\* only through arrays and an object's @graph array) whose @type designates a
\* Recipe, and null exactly when none is reachable; over the script blocks the
\* first block with such an entry wins and a block that is no JSON is skipped.
C23_FirstRecipeInPreOrder ==
    Fetched =>
        /\ extractRecipeFromJsonLd(upstream.page) = FirstRecipe(upstream.page.scripts)
        /\ \A i \in 1..Len(upstream.page.scripts) :
              upstream.page.scripts[i].valid =>
                 findRecipeEntry(upstream.page.scripts[i].json)
                    = (IF ReachableRecipes(upstream.page.scripts[i].json) = <<>> THEN JNull
                       ELSE Head(ReachableRecipes(upstream.page.scripts[i].json)))
        /\ (scrape.kind = "record" /\ FirstRecipe(upstream.page.scripts) # JNull) =>
              scrape.record.title = Get(FirstRecipe(upstream.page.scripts), "name").s

\* after a block that is no JSON, the recipe inside the @graph of the first
\* entry of an array was found before the recipe that is the second entry
C23_Witness ==
    /\ Fetched
    /\ upstream.page.scripts =
          <<BadScript,
            Script(JArr(<<GraphOf(<<Article,
                                    RecipeNamed(JArr(<<JNum(5), W("Thing"), W("RECIPE")>>),
                                                "r2")>>),
                          RecipeNamed(W("Recipe"), "r1")>>))>>
    /\ scrape.kind = "record"
    /\ scrape.record.title = <<"r2">>

\* a recipe under a key other than @graph was not found: the call failed for
\* lack of ingredients
C23_UnreachableRecipeNotFound ==
    /\ Fetched
    /\ Len(upstream.page.scripts) = 1
    /\ Get(upstream.page.scripts[1].json, "mainEntity") # JUndefined
    /\ RejectedWith("RecipeScrapeParseError", 422)

\* the three fields of a Recipe entry that may hold its ingredients
IngredientFields == <<"recipeIngredient", "ingredients", "ingredient">>

\* the non-empty normalized ingredient strings a Recipe entry carries under
\* one field (a list of strings or of item objects, or one delimited string)
FieldIngredients(entry, field) == normalizeIngredientList(Get(entry, field))

\* those it carries under any of the three fields
CarriedIngredients(entry) ==
    Flat([f \in 1..Len(IngredientFields) |-> FieldIngredients(entry, IngredientFields[f])])

\* the call returned a record for a page whose Recipe entry carries an
\* ingredient string
RecordWithCarriedIngredients ==
    /\ Fetched
    /\ scrape.kind = "record"
    /\ Truthy(FoundRecipe)
    /\ CarriedIngredients(FoundRecipe) # <<>>

\* C24: whenever the selected Recipe entry carries a non-empty ingredient
\* string under recipeIngredient, ingredients or ingredient, every returned
\* ingredient is one of the strings of the structured data and no DOM selector
\* contributes.
C24_StructuredIngredientsPreferred ==
    RecordWithCarriedIngredients =>
        /\ \A i \in 1..Len(scrape.record.ingredients) :
              \E m \in 1..Len(CarriedIngredients(FoundRecipe)) :
                  scrape.record.ingredients[i] = CarriedIngredients(FoundRecipe)[m]
        /\ (extractIngredientsFromDom(upstream.page) # <<>>
            /\ \A i \in 1..Len(extractIngredientsFromDom(upstream.page)) :
                  \A m \in 1..Len(CarriedIngredients(FoundRecipe)) :
                      extractIngredientsFromDom(upstream.page)[i]
                          # CarriedIngredients(FoundRecipe)[m])
           => scrape.record.ingredients
                 # SetOrder(extractIngredientsFromDom(upstream.page))

\* the entry has an empty recipeIngredient list and flour under ingredients;
\* the record holds the list items of the DOM instead
C24_EmptyListHidesIngredients ==
    /\ RecordWithCarriedIngredients
    /\ Get(FoundRecipe, "recipeIngredient") = JArr(<<>>)
    /\ CarriedIngredients(FoundRecipe) = << <<"flour">> >>
    /\ scrape.record.ingredients =
          << <<"3", SP, "cups", SP, "water">>, <<"1", SP, "tbsp", SP, "salt">> >>

\* the first of the three fields that is neither absent nor null
FirstPresentField(entry) ==
    IF ~IsNullish(Get(entry, "recipeIngredient")) THEN "recipeIngredient"
    ELSE IF ~IsNullish(Get(entry, "ingredients")) THEN "ingredients"
    ELSE "ingredient"

\* what holds of the code: when the first field that is present carries an
\* ingredient string, the record holds the strings of that field, first
\* occurrences only, and nothing else
C24_FirstPresentFieldPreferred ==
    (RecordWithCarriedIngredients
     /\ FieldIngredients(FoundRecipe, FirstPresentField(FoundRecipe)) # <<>>)
        => scrape.record.ingredients =
              Dedup(FieldIngredients(FoundRecipe, FirstPresentField(FoundRecipe)))

\* the delimited string under ingredients was used although the DOM has items
C24_DelimitedStringPreferred ==
    /\ RecordWithCarriedIngredients
    /\ Get(FoundRecipe, "ingredients").t = "str"
    /\ extractIngredientsFromDom(upstream.page) # <<>>
    /\ scrape.record.ingredients = << <<"beef">>, <<"salt">>, <<"pepper">> >>

\* the two error classes the extractor declares
ScraperErrorClasses == {"RecipeScrapeRequestError", "RecipeScrapeParseError"}

\* C25: every rejection of scrapeRecipeFromUrl is a RecipeScrapeRequestError
\* or a RecipeScrapeParseError, for every input string and every fetched
\* page, Recipe entries whose name, headline or title are JSON values of any
\* type included.
C25_OnlyScraperErrorsEscape ==
    scrape.kind = "error" => scrape.error.class \in ScraperErrorClasses

\* a field of the Recipe entry of the fetched page that is a title candidate
\* and holds a value that is neither a string nor null
NonStringTitleField ==
    /\ Truthy(FoundRecipe)
    /\ \E f \in {"name", "headline", "title"} :
          ~IsNullish(Get(FoundRecipe, f)) /\ Get(FoundRecipe, f).t # "str"

\* the page whose Recipe entry has the number 5 as name made the call reject
\* with a TypeError
C25_TypeErrorEscaped ==
    /\ Fetched
    /\ Get(FoundRecipe, "name") = JNum(5)
    /\ scrape.kind = "error"
    /\ scrape.error.class = "TypeError"

\* what holds of the code: a rejection is of another class exactly when the
\* page was fetched and a title field of its Recipe entry is not a string
C25_ExceptNonStringTitles ==
    (scrape.kind = "error" /\ pc # "fetching") =>
        (scrape.error.class \in ScraperErrorClasses
            <=> ~(Fetched /\ NonStringTitleField))

\* a call of the wrapper got hold of the tracing client and has settled
TrackedCallSettled == lib.track.pc = "settled" /\ lib.track.traced

\* C26: trackExternalOperation invokes execute exactly once; when execute
\* resolves with v the call resolves with v and when execute rejects with e
\* the call rejects with the same e, in both cases after the trace was ended
\* and a flush has completed, whatever the flushes settled with.
C26_WrapperTransparent ==
    /\ lib.track.traced => lib.track.executes = 1
    /\ TrackedCallSettled =>
          /\ lib.track.outcome = lib.track.executed
          /\ lib.track.ends >= 1
          /\ lib.track.flushes >= 1

\* execute resolved with an id, the flush rejected twice and the call
\* rejected with the error of the second flush
C26_FlushErrorReplacesResult ==
    /\ TrackedCallSettled
    /\ lib.track.executed = Resolved(W("id-1"))
    /\ lib.track.flushes = 2
    /\ lib.track.outcome = Rejected(ErrorOf(<<"timeout">>))

\* execute rejected and the call rejected with the error of the flush
C26_FlushErrorReplacesError ==
    /\ TrackedCallSettled
    /\ lib.track.executed = Rejected(ErrorOf(<<"boom">>))
    /\ lib.track.outcome = Rejected(ErrorOf(<<"No such workspace">>))

\* the errors a flush may reject with
FlushErrors == {ErrorOf(<<"No such workspace">>), ErrorOf(<<"timeout">>)}

\* what holds of the code: execute is invoked once; a call settles only after
\* the trace was ended and a flush has settled; a call that resolves resolves
\* with the value of execute, after one flush; a call that rejects rejects
\* with the error of execute or with the error of a flush
C26_TransparentUnlessFlushRejects ==
    /\ lib.track.traced => lib.track.executes = 1
    /\ TrackedCallSettled =>
          /\ lib.track.ends >= 1 /\ lib.track.flushes >= 1
          /\ lib.track.outcome.kind \in {"resolved", "rejected"}
          /\ lib.track.outcome.kind = "resolved"
                => lib.track.outcome = lib.track.executed /\ lib.track.flushes = 1
          /\ lib.track.outcome.kind = "rejected"
                => \/ lib.track.outcome = lib.track.executed
                   \/ lib.track.outcome.error \in FlushErrors

\* execute rejected, the flush resolved and the call rejected with the error
\* of execute
C26_ErrorRethrown ==
    /\ TrackedCallSettled
    /\ lib.track.executed = Rejected(RuntimeTypeError(<<"fetch failed">>))
    /\ lib.track.outcome = lib.track.executed
    /\ lib.track.flushes = 1

\* the items of the store's answer to a search: the answer has a success
\* status, no errors and an array under data.Get.Recipe
AnswerItems ==
    IF AnswerJson.t = "obj"
    THEN OptGet(OptGet(OptGet(AnswerJson, "data"), "Get"), "Recipe")
    ELSE JUndefined

SearchAnsweredWithItems ==
    /\ lib.op = "searchRecipes"
    /\ StoreAnswered /\ ResponseOk(lib.storeResponse.status)
    /\ AnswerJson.t = "obj"
    /\ ~Truthy(Get(AnswerJson, "errors")) \/ Get(AnswerJson, "errors") = JArr(<<>>)
    /\ AnswerItems.t = "arr"

NonEmptyString(v) == v.t = "str" /\ v.s # <<>>

\* an item of the answer that has what a result needs
CompleteItem(item) ==
    /\ NonEmptyString(OptGet(Get(item, "_additional"), "id"))
    /\ NonEmptyString(Get(item, "title"))
    /\ NonEmptyString(Get(item, "sourceUrl"))
    /\ Get(item, "ingredients").t = "arr"

\* result is what searchRecipes returns for a complete item: the item's id,
\* title and sourceUrl, the strings of its ingredients, and a score only if
\* the store gave a number
ResultOf(result, item) ==
    /\ Get(result, "id") = Get(Get(item, "_additional"), "id")
    /\ Get(result, "title") = Get(item, "title")
    /\ Get(result, "sourceUrl") = Get(item, "sourceUrl")
    /\ Get(result, "ingredients") =
          JArr(SelectSeq(Get(item, "ingredients").a, LAMBDA ing : ing.t = "str"))
    /\ Get(result, "score") # JUndefined =>
          /\ Get(result, "score").t = "num"
          /\ Get(result, "score") = Get(Get(item, "_additional"), "score")

\* C29: the list searchRecipes returns holds, in the order of the store's
\* response, the items that have a non-empty string id, title and sourceUrl
\* and an ingredients array, each with only strings as ingredients; every
\* other item is dropped without failing the call; a score is present only
\* when the store gave a number.
C29_CompleteItemsInOrder ==
    SearchAnsweredWithItems =>
        LET complete == SelectSeq(AnswerItems.a, CompleteItem)
        IN  /\ lib.outcome.kind = "resolved"
            /\ lib.outcome.value.t = "arr"
            /\ Len(lib.outcome.value.a) = Len(complete)
            /\ \A i \in 1..Len(complete) :
                  i <= Len(lib.outcome.value.a)
                     => ResultOf(lib.outcome.value.a[i], complete[i])

\* the store answered with the one item null and the search rejected with a
\* TypeError
C29_NullItemFailsSearch ==
    /\ SearchAnsweredWithItems
    /\ AnswerItems = JArr(<<JNull>>)
    /\ lib.outcome = Rejected(RuntimeTypeError(<<"Cannot read properties of null">>))

\* what holds of the code: the same, for answers none of whose items is null
C29_ExceptNullItems ==
    (SearchAnsweredWithItems /\ \A i \in 1..Len(AnswerItems.a) : AnswerItems.a[i] # JNull)
        => LET complete == SelectSeq(AnswerItems.a, CompleteItem)
           IN  /\ lib.outcome.kind = "resolved"
               /\ lib.outcome.value.t = "arr"
               /\ Len(lib.outcome.value.a) = Len(complete)
               /\ \A i \in 1..Len(complete) :
                     ResultOf(lib.outcome.value.a[i], complete[i])

\* of five items the second and the fourth were returned, in that order, the
\* second without a score and the fourth without its ingredient that is a
\* number
C29_TwoOfFiveReturned ==
    /\ SearchAnsweredWithItems
    /\ Len(AnswerItems.a) = 5
    /\ lib.outcome.kind = "resolved"
    /\ Len(lib.outcome.value.a) = 2
    /\ Get(lib.outcome.value.a[1], "id") = W("id-5")
    /\ Get(lib.outcome.value.a[1], "score") = JUndefined
    /\ Get(lib.outcome.value.a[2], "id") = W("id-1")
    /\ Get(lib.outcome.value.a[2], "ingredients") = JArr(<<W("salt"), W("water")>>)
    /\ Get(lib.outcome.value.a[2], "score") = JNum(1)

\* text is not empty, neither starts nor ends with whitespace, holds no
\* non-breaking space, no line break and no two whitespace characters in a row
WhitespaceNormalized(text) ==
    /\ text # <<>>
    /\ ~IsWs(text[1]) /\ ~IsWs(text[Len(text)])
    /\ \A i \in 1..Len(text) : text[i] \notin {NBSP, LF, CR}
    /\ \A i \in 1..(Len(text) - 1) : ~(IsWs(text[i]) /\ IsWs(text[i + 1]))

\* the ingredient texts the record was built from, in source order: those of
\* the structured data, or those of the DOM when it has none
SourceIngredients ==
    IF ~NoStructuredIngredients
    THEN normalizeIngredientList(
             Coalesce(Get(FoundRecipe, "recipeIngredient"),
                 Coalesce(Get(FoundRecipe, "ingredients"),
                          Get(FoundRecipe, "ingredient"))))
    ELSE extractIngredientsFromDom(upstream.page)

\* the position of the first occurrence of text in texts
FirstSeenAt(texts, text) ==
    CHOOSE i \in 1..Len(texts) :
        texts[i] = text /\ \A m \in 1..(i - 1) : texts[m] # text

\* C30: the title and every ingredient of a returned record are
\* whitespace-normalized and cleanText leaves them unchanged; the ingredients
\* are pairwise distinct, case-sensitively, and stand in the order in which
\* they were first seen in the source.
C30_RecordStringsNormalized ==
    scrape.kind = "record" =>
        LET items == scrape.record.ingredients
            source == SourceIngredients
            seenAt == [i \in 1..Len(items) |-> FirstSeenAt(source, items[i])]
        IN  /\ WhitespaceNormalized(scrape.record.title)
            /\ cleanText(scrape.record.title) = scrape.record.title
            /\ Len(items) > 0
            /\ \A i \in 1..Len(items) :
                  WhitespaceNormalized(items[i]) /\ cleanText(items[i]) = items[i]
            /\ \A i, m \in 1..Len(items) : i # m => items[i] # items[m]
            /\ {items[i] : i \in 1..Len(items)} = {source[i] : i \in 1..Len(source)}
            /\ \A i, m \in 1..Len(items) : i < m => seenAt[i] < seenAt[m]

\* a name with a non-breaking space, a line break and outer blanks became the
\* title Test Pancakes; of the five ingredient strings, one repeated with
\* outer blanks and one empty, three remained, flour and Flour both
C30_Witness ==
    /\ scrape.kind = "record"
    /\ Get(FoundRecipe, "name") = JStr(<<SP, "Test", NBSP, LF, "Pancakes", SP>>)
    /\ scrape.record.title = <<"Test", SP, "Pancakes">>
    /\ Len(Get(FoundRecipe, "recipeIngredient").a) = 5
    /\ scrape.record.ingredients = << <<"flour">>, <<"eggs">>, <<"Flour">> >>

====
